---- MODULE Spec2Model ----
(***************************************************************************)
(* Model of the agentic request-handling core of mise-asi:                 *)
(*   orchestration/validator.py   AgentValidator                           *)
(*   orchestration/executor.py    AgentExecutor                            *)
(*   orchestration/orchestrator.py Orchestrator.process_message            *)
(*   orchestration/rate_limiter.py RateLimiter (day-window abstraction)    *)
(* Text is modelled as TLA+ strings with Python's str semantics for        *)
(* lower(), strip() and the `in` containment test.                         *)
(***************************************************************************)
EXTENDS Integers, Sequences, FiniteSets, TLC

VARIABLES
    pending_plans,   \* Orchestrator.pending_plans: user id -> plan id (0 = no entry)
    plans,           \* every ActionPlan object created so far, by plan id
    execution_log,   \* AgentExecutor.execution_log
    day_requests,    \* len(RateLimiter.day_requests)
    call,            \* per user: the process_message invocation in flight
    handler_calls,   \* per plan: the handle_function_call invocations, in order, each
                     \* with the step it was made for and how it ended
    hist,            \* per plan: its owner, what planning and validation said of it,
                     \* and who approved or rejected it ("" = nobody)
    response,        \* the mapping the step just taken returned to the caller of
                     \* process_message (NoResponse when that step returned nothing)
    v_plan,          \* validate_plan harness: the plan under validation
    v_ctx,           \* validate_plan harness: the AgentContext
    v_out,           \* validate_plan harness: the ValidationResult ("none" before the call)
    clock,           \* RateLimiter harness: what datetime.now() reads
    limiter,         \* RateLimiter harness: the RateLimiter object (limits and deques)
    lock,            \* RateLimiter harness: the thread holding RateLimiter.lock
    thread,          \* RateLimiter harness: per thread, its wait_if_needed call
    calls,           \* RateLimiter harness: the finished wait_if_needed calls, in order
    c_message,       \* classify harness: the message handed to RequestClassifier.classify
    c_result,        \* classify harness: the ClassifiedRequest returned ("none" before)
    progress_callback,  \* the events ("executing", "completed", "failed") on which the
                        \* progress_callback handed to execute_plan throws ({} for a
                        \* callback that returns, and when none is handed over)
    handler_texts,   \* the texts the handlers behind handle_function_call may return
    rollback_calls,  \* executor harness: the handler calls rollback_plan has issued
    rollback_returned,  \* executor harness: what rollback_plan returned ("none" before)
    p_llm,           \* create_plan harness: what the LLM does with the planning prompt
    p_out,           \* create_plan harness: how create_plan ended ("none" before)
    g_fetch,         \* gather_context harness: per field, how its fetch ends
    g_out,           \* gather_context harness: how gather_context ended ("none" before)
    s_row,           \* shopping-list harness: the user's shopping_lists row without
                     \* a meal plan (id 0 when there is none) and its items
    s_added,         \* shopping-list harness: the items handed to the last
                     \* add_shopping_list_items call
    s_calls,         \* shopping-list harness: the add_shopping_list_items calls made
    r_message,       \* plan-reply harness: the message sent while a plan is pending
    k_inv,           \* concurrency harness: per thread, its process_message invocation
    k_runs,          \* concurrency harness: per plan, the execute_plan calls that ran it
    k_begun          \* concurrency harness: the process_message invocations begun

vars == <<pending_plans, plans, execution_log, day_requests, call, handler_calls,
          hist, response, v_plan, v_ctx, v_out, clock, limiter, lock, thread, calls,
          c_message, c_result, progress_callback, handler_texts, rollback_calls,
          rollback_returned, p_llm, p_out, g_fetch, g_out, s_row, s_added, s_calls,
          r_message, k_inv, k_runs, k_begun>>

orch_vars == <<pending_plans, plans, execution_log, day_requests, call, handler_calls,
               hist, response>>
val_vars == <<v_plan, v_ctx, v_out>>
rl_vars == <<clock, limiter, lock, thread, calls>>
cls_vars == <<c_message, c_result>>
ex_vars == <<progress_callback, handler_texts, rollback_calls, rollback_returned>>
plan_vars == <<p_llm, p_out>>
ctx_vars == <<g_fetch, g_out>>
list_vars == <<s_row, s_added, s_calls>>
conv_vars == <<r_message, k_inv, k_runs, k_begun>>
fn_vars == <<plan_vars, ctx_vars, list_vars, conv_vars>>

(***************************************************************************)
(* Python str helpers                                                      *)
(***************************************************************************)
LowerChar(c) ==
    CASE c = "A" -> "a" [] c = "B" -> "b" [] c = "C" -> "c" [] c = "D" -> "d"
      [] c = "E" -> "e" [] c = "F" -> "f" [] c = "G" -> "g" [] c = "H" -> "h"
      [] c = "I" -> "i" [] c = "J" -> "j" [] c = "K" -> "k" [] c = "L" -> "l"
      [] c = "M" -> "m" [] c = "N" -> "n" [] c = "O" -> "o" [] c = "P" -> "p"
      [] c = "Q" -> "q" [] c = "R" -> "r" [] c = "S" -> "s" [] c = "T" -> "t"
      [] c = "U" -> "u" [] c = "V" -> "v" [] c = "W" -> "w" [] c = "X" -> "x"
      [] c = "Y" -> "y" [] c = "Z" -> "z" [] OTHER -> c

RECURSIVE Lower(_)
Lower(s) ==
    IF Len(s) = 0 THEN ""
    ELSE LowerChar(SubSeq(s, 1, 1)) \o Lower(SubSeq(s, 2, Len(s)))

IsSpace(c) == c \in {" ", "\t", "\n", "\r"}

RECURSIVE LStrip(_)
LStrip(s) ==
    IF Len(s) > 0 /\ IsSpace(SubSeq(s, 1, 1)) THEN LStrip(SubSeq(s, 2, Len(s))) ELSE s

RECURSIVE RStrip(_)
RStrip(s) ==
    IF Len(s) > 0 /\ IsSpace(SubSeq(s, Len(s), Len(s)))
    THEN RStrip(SubSeq(s, 1, Len(s) - 1)) ELSE s

Strip(s) == RStrip(LStrip(s))

\* Python `w in s` for strings
Contains(s, w) ==
    \E i \in 1..(Len(s) - Len(w) + 1) : SubSeq(s, i, i + Len(w) - 1) = w

(***************************************************************************)
(* Plan model (action_plan.py is not part of the sources: fields and       *)
(* derived values follow the data model of the specification)              *)
(***************************************************************************)
\* a parameter value: key absent, a list, or some other JSON value
Absent == [kind |-> "absent", val |-> <<>>]
ListOf(l) == [kind |-> "list", val |-> l]
Scalar == [kind |-> "scalar", val |-> <<>>]

\* a list entry: a plain string, or a dict carrying the keys in `keys`
StrItem(t) == [kind |-> "str", keys |-> {}, item |-> t, name |-> ""]
DictItem(t) == [kind |-> "dict", keys |-> {"item"}, item |-> t, name |-> ""]
NamedItem(t) == [kind |-> "dict", keys |-> {"name"}, item |-> "", name |-> t]

Params(items, item_names) ==
    [items |-> items, item_names |-> item_names, ingredients |-> Absent]

PlanStep(action, parameters, description, cost) ==
    [action |-> action, parameters |-> parameters, description |-> description,
     estimated_cost |-> cost, status |-> "PENDING", result |-> "none", error |-> "none",
     executed_at |-> FALSE]

ActionPlan(steps, status) ==
    [steps |-> steps, status |-> status, requires_approval |-> FALSE,
     approval_reason |-> <<>>, execution_summary |-> "none", completed_at |-> FALSE]

RECURSIVE SumCost(_)
SumCost(steps) ==
    IF steps = <<>> THEN 0 ELSE Head(steps).estimated_cost + SumCost(Tail(steps))

total_estimated_cost(plan) == SumCost(plan.steps)

get_remaining_budget(context) == context.spending_limit_daily - context.spent_today

get_completed_steps(plan) == SelectSeq(plan.steps, LAMBDA s : s.status = "COMPLETED")

get_failed_steps(plan) == SelectSeq(plan.steps, LAMBDA s : s.status = "FAILED")

(***************************************************************************)
(* AgentValidator                                                          *)
(***************************************************************************)
require_approval_keywords == <<"delete all", "remove all", "clear", "reset">>

NoWallet == [present |-> FALSE, amount |-> 0]
Wallet(n) == [present |-> TRUE, amount |-> n]

Reason(tag, n, kw) == [tag |-> tag, n |-> n, kw |-> kw]

CheckResult(requires_approval, reason, warnings, errors) ==
    [requires_approval |-> requires_approval, reason |-> reason,
     warnings |-> warnings, errors |-> errors]

\* variant of _check_budget that asks for approval as soon as the total exceeds
\* what is left of the daily budget
_check_budget_remaining_only(plan, context) ==
    LET total_cost == total_estimated_cost(plan)
        over_remaining == total_cost > 0 /\ total_cost > get_remaining_budget(context)
        no_funds == /\ total_cost > 0
                    /\ context.wallet_balance.present
                    /\ total_cost > context.wallet_balance.amount
    IN  CheckResult(
            over_remaining,
            IF over_remaining
            THEN <<Reason("over_daily_limit", total_cost, "")>> ELSE <<>>,
            <<>>,
            IF no_funds THEN <<"insufficient_funds">> ELSE <<>>)

_check_budget(plan, context) ==
    LET total_cost == total_estimated_cost(plan)
        remaining_budget == get_remaining_budget(context)
        over_remaining == total_cost > 0 /\ total_cost > remaining_budget
        over_limit == over_remaining /\ total_cost > context.spending_limit_daily
        no_funds == /\ total_cost > 0
                    /\ context.wallet_balance.present
                    /\ total_cost > context.wallet_balance.amount
    IN  CheckResult(
            over_limit,
            IF over_limit
            THEN <<Reason("over_daily_limit", total_cost, "")>> ELSE <<>>,
            IF over_remaining /\ ~over_limit THEN <<"uses_remaining_budget">> ELSE <<>>,
            IF no_funds THEN <<"insufficient_funds">> ELSE <<>>)

\* params.get("items", params.get("item_names", []))
BulkItems(params) ==
    IF params.items.kind # "absent" THEN params.items
    ELSE IF params.item_names.kind # "absent" THEN params.item_names
    ELSE ListOf(<<>>)

\* the first configured keyword contained in the description ("" when none is)
RECURSIVE FirstKeyword(_, _)
FirstKeyword(description, k) ==
    IF k > Len(require_approval_keywords) THEN ""
    ELSE IF Contains(description, require_approval_keywords[k])
         THEN require_approval_keywords[k]
         ELSE FirstKeyword(description, k + 1)

\* variant of IsRemovalAction that takes every action for a removal
AnyActionIsRemoval(action) == TRUE

\* the "delete"/"remove" test on the lowercased action name
IsRemovalAction(action) == Contains(action, "delete") \/ Contains(action, "remove")

\* one iteration of the loop over plan.steps in _check_safety
SafetyStep(acc, step) ==
    LET action == Lower(step.action)
        description == Lower(step.description)
        items == BulkItems(step.parameters)
        bulk == /\ IsRemovalAction(action)
                /\ items.kind = "list"
                /\ Len(items.val) > 5
        acc1 == IF bulk
                THEN CheckResult(TRUE, <<Reason("bulk_removal", Len(items.val), "")>>,
                                 Append(acc.warnings, "bulk_removal"), acc.errors)
                ELSE acc
        keyword == FirstKeyword(description, 1)
    IN  IF keyword # ""
        THEN CheckResult(TRUE, <<Reason("keyword", 0, keyword)>>, acc1.warnings, acc1.errors)
        ELSE acc1

RECURSIVE SafetyLoop(_, _)
SafetyLoop(acc, steps) ==
    IF steps = <<>> THEN acc ELSE SafetyLoop(SafetyStep(acc, Head(steps)), Tail(steps))

_check_safety(plan) == SafetyLoop(CheckResult(FALSE, <<>>, <<>>, <<>>), plan.steps)

AddActions == {"addToShoppingList", "createShoppingListItems"}

\* item.get("item", item.get("name", "")) for a dict, the text itself for a str
EntryName(entry) ==
    IF entry.kind = "str" THEN entry.item
    ELSE IF "item" \in entry.keys THEN entry.item
    ELSE IF "name" \in entry.keys THEN entry.name
    ELSE ""

\* iterating a value that is not a list raises TypeError
RaisesOnIteration(value) == value.kind = "scalar"

ExistingItems(context) ==
    { Strip(Lower(IF "item" \in context.shopping_list[i].keys
                  THEN context.shopping_list[i].item ELSE "")) :
        i \in 1..Len(context.shopping_list) }

RECURSIVE DuplicateItems(_, _)
DuplicateItems(items, existing) ==
    IF items = <<>> THEN <<>>
    ELSE LET item_name == Strip(Lower(EntryName(Head(items))))
         IN  (IF item_name # "" /\ item_name \in existing
              THEN <<"duplicate:" \o item_name>> ELSE <<>>)
             \o DuplicateItems(Tail(items), existing)

RECURSIVE DuplicateLoop(_, _)
DuplicateLoop(steps, existing) ==
    IF steps = <<>> THEN <<>>
    ELSE (IF Head(steps).action \in AddActions
             /\ Head(steps).parameters.items.kind = "list"
          THEN DuplicateItems(Head(steps).parameters.items.val, existing) ELSE <<>>)
         \o DuplicateLoop(Tail(steps), existing)

_check_duplicates(plan, context) ==
    [warnings |-> DuplicateLoop(plan.steps, ExistingItems(context)),
     raised |-> \E i \in 1..Len(plan.steps) :
                    /\ plan.steps[i].action \in AddActions
                    /\ RaisesOnIteration(plan.steps[i].parameters.items)]

Restrictions == {"vegetarian", "vegan", "gluten-free", "lactose-free", "nut-free"}

restriction_conflicts == [r \in Restrictions |->
    CASE r = "vegetarian" -> <<"meat", "chicken", "beef", "pork", "fish", "bacon">>
      [] r = "vegan" -> <<"meat", "chicken", "beef", "pork", "fish", "dairy", "milk",
                          "cheese", "eggs", "butter">>
      [] r = "gluten-free" -> <<"bread", "pasta", "flour", "wheat">>
      [] r = "lactose-free" -> <<"milk", "cheese", "butter", "cream", "yogurt">>
      [] r = "nut-free" -> <<"peanut", "almond", "walnut", "cashew", "pistachio">>]

PreferenceActions == {"addToShoppingList", "createShoppingListItems", "suggestMeal"}

\* the inner loops: per restriction, at most one warning (break on the first conflict)
RECURSIVE PreferenceRestrictions(_, _)
PreferenceRestrictions(item_name, restrictions) ==
    IF restrictions = <<>> THEN <<>>
    ELSE LET restriction == Head(restrictions)
             hit == /\ restriction \in Restrictions
                    /\ \E k \in 1..Len(restriction_conflicts[restriction]) :
                           Contains(item_name, restriction_conflicts[restriction][k])
         IN  (IF hit THEN <<"preference:" \o item_name \o ":" \o restriction>> ELSE <<>>)
             \o PreferenceRestrictions(item_name, Tail(restrictions))

RECURSIVE PreferenceItems(_, _)
PreferenceItems(items, restrictions) ==
    IF items = <<>> THEN <<>>
    ELSE PreferenceRestrictions(Lower(EntryName(Head(items))), restrictions)
         \o PreferenceItems(Tail(items), restrictions)

\* items = parameters.get("items", []); if not items: the ingredients as dicts
PreferenceStepItems(params) ==
    IF params.items.kind = "list" /\ params.items.val # <<>> THEN params.items.val
    ELSE IF params.items.kind = "scalar" THEN <<>>
    ELSE IF params.ingredients.kind = "list"
         THEN [i \in 1..Len(params.ingredients.val) |->
                   [kind |-> "dict", keys |-> {"item"},
                    item |-> EntryName(params.ingredients.val[i]), name |-> ""]]
         ELSE <<>>

RECURSIVE PreferenceLoop(_, _)
PreferenceLoop(steps, restrictions) ==
    IF steps = <<>> THEN <<>>
    ELSE (IF Head(steps).action \in PreferenceActions
          THEN PreferenceItems(PreferenceStepItems(Head(steps).parameters), restrictions)
          ELSE <<>>)
         \o PreferenceLoop(Tail(steps), restrictions)

_check_preferences(plan, context) ==
    LET active == context.preferences.present
                  /\ context.preferences.dietary_restrictions # <<>>
        restrictions_lower ==
            [i \in 1..Len(context.preferences.dietary_restrictions) |->
                Lower(context.preferences.dietary_restrictions[i])]
    IN  [warnings |-> IF active THEN PreferenceLoop(plan.steps, restrictions_lower) ELSE <<>>,
         raised |-> active /\ \E i \in 1..Len(plan.steps) :
                        /\ plan.steps[i].action \in PreferenceActions
                        /\ RaisesOnIteration(plan.steps[i].parameters.items)]

\* variant of UpdatePlanStatus that tests the approval request before the errors
UpdatePlanStatusApprovalFirst(plan, errors, requires_approval, approval_reason) ==
    IF requires_approval
    THEN [plan |-> [plan EXCEPT !.status = "AWAITING_APPROVAL",
                                !.requires_approval = TRUE,
                                !.approval_reason = approval_reason],
          is_valid |-> TRUE]
    ELSE IF errors # <<>>
    THEN [plan |-> [plan EXCEPT !.status = "FAILED"], is_valid |-> FALSE]
    ELSE [plan |-> [plan EXCEPT !.status = "APPROVED"], is_valid |-> TRUE]

\* "Update plan status": the verdict from the merged errors and approval request
UpdatePlanStatus(plan, errors, requires_approval, approval_reason) ==
    IF errors # <<>>
    THEN [plan |-> [plan EXCEPT !.status = "FAILED"], is_valid |-> FALSE]
    ELSE IF requires_approval
    THEN [plan |-> [plan EXCEPT !.status = "AWAITING_APPROVAL",
                                !.requires_approval = TRUE,
                                !.approval_reason = approval_reason],
          is_valid |-> TRUE]
    ELSE [plan |-> [plan EXCEPT !.status = "APPROVED"], is_valid |-> TRUE]

\* the approval flag and reason merged over the budget and the safety check
MergeApproval(budget_result, safety_result) ==
    LET after_budget == IF budget_result.requires_approval
                        THEN budget_result.reason ELSE <<>>
    IN  [requires_approval |->
             budget_result.requires_approval \/ safety_result.requires_approval,
         approval_reason |->
             IF safety_result.requires_approval
             THEN after_budget \o safety_result.reason
             ELSE after_budget]

\* validate_plan: the ValidationResult and the plan as the call leaves it;
\* raised = the call ended in an exception before the status update
validate_plan(plan, context) ==
    LET budget_result == _check_budget(plan, context)
        safety_result == _check_safety(plan)
        duplicate_result == _check_duplicates(plan, context)
        preference_result == _check_preferences(plan, context)
        merged == MergeApproval(budget_result, safety_result)
        warnings == budget_result.warnings \o safety_result.warnings
                    \o duplicate_result.warnings \o preference_result.warnings
        errors == budget_result.errors \o safety_result.errors
        verdict == UpdatePlanStatus(plan, errors, merged.requires_approval,
                                    merged.approval_reason)
    IN  IF duplicate_result.raised \/ preference_result.raised
        THEN [raised |-> TRUE, is_valid |-> FALSE, requires_approval |-> FALSE,
              approval_reason |-> <<>>, warnings |-> <<>>, errors |-> <<>>, plan |-> plan]
        ELSE [raised |-> FALSE, is_valid |-> verdict.is_valid,
              requires_approval |-> merged.requires_approval,
              approval_reason |-> merged.approval_reason,
              warnings |-> warnings, errors |-> errors, plan |-> verdict.plan]

(***************************************************************************)
(* Inputs: plan steps as the planner may parse them from LLM output, and   *)
(* context snapshots                                                       *)
(***************************************************************************)
MaxStepsV == 2      \* longest plan handed to validate_plan in SpecV
MaxPlans == 2       \* plans created by process_message in one behaviour
MaxSteps == 2       \* longest plan the planner returns in Spec

Names(n) == [i \in 1..n |-> StrItem(SubSeq("abcdefgh", i, i))]

TwoItems == <<DictItem("Milk "), DictItem("eggs")>>

S_add == PlanStep("addToShoppingList", Params(ListOf(TwoItems), Absent),
                  "Add milk and eggs to your shopping list", 0)
S_buy == PlanStep("addToShoppingList", Params(ListOf(TwoItems), Absent),
                  "Add milk and eggs to your shopping list", 20)
S_add6 == PlanStep("createShoppingListItems", Params(ListOf(Names(6)), Absent),
                   "Add six items to your shopping list", 0)
S_addbad == PlanStep("addToShoppingList", Params(Scalar, Absent),
                     "Add everything to your shopping list", 0)
S_rm5 == PlanStep("removeFromShoppingList", Params(Absent, ListOf(Names(5))),
                  "Remove five items from your shopping list", 0)
S_rm6 == PlanStep("removeFromShoppingList", Params(Absent, ListOf(Names(6))),
                  "Remove six items from your shopping list", 0)
S_del6 == PlanStep("bulkDeleteInventory", Params(ListOf(Names(6)), Absent),
                   "Delete six items from your pantry", 0)
S_rmshadow == PlanStep("removeFromShoppingList", Params(Scalar, ListOf(Names(6))),
                       "Remove six items from your shopping list", 0)
S_clear == PlanStep("replaceShoppingList", Params(Absent, Absent),
                    "Clear your shopping list", 0)
S_reset == PlanStep("updateUserPreferences", Params(Absent, Absent),
                    "Reset your preferences", 0)
S_rmall == PlanStep("removeFromShoppingList", Params(Absent, ListOf(Names(1))),
                    "Remove ALL dairy from your shopping list", 0)
S_meal == PlanStep("suggestMeal", Params(Scalar, Absent),
                   "Suggest a dinner for tonight", 0)

StepUniverse == {S_add, S_buy, S_add6, S_addbad, S_rm5, S_rm6, S_del6, S_rmshadow,
                 S_clear, S_reset, S_rmall, S_meal}

RECURSIVE SeqsUpTo(_, _)
SeqsUpTo(S, n) ==
    IF n = 0 THEN {<<>>}
    ELSE LET shorter == SeqsUpTo(S, n - 1)
         IN  shorter \cup {Append(q, x) : q \in shorter, x \in S}

NoPreferences == [present |-> FALSE, dietary_restrictions |-> <<>>]
Preferences(r) == [present |-> TRUE, dietary_restrictions |-> r]

AgentContext(preferences, shopping_list, wallet_balance, spending_limit_daily, spent_today) ==
    [preferences |-> preferences, shopping_list |-> shopping_list,
     wallet_balance |-> wallet_balance, spending_limit_daily |-> spending_limit_daily,
     spent_today |-> spent_today]

\* budget figures: wallet, daily limit, spent today
Budgets == {<<NoWallet, 100, 0>>, <<NoWallet, 15, 0>>, <<NoWallet, 100, 90>>,
            <<Wallet(30), 100, 0>>, <<Wallet(10), 15, 0>>, <<Wallet(10), 100, 90>>}

Kitchens == {<<NoPreferences, <<>>>>, <<Preferences(<<"Vegan">>), <<DictItem("milk")>>>>}

Contexts == {AgentContext(k[1], k[2], b[1], b[2], b[3]) : k \in Kitchens, b \in Budgets}

(***************************************************************************)
(* RateLimiter with its clock: wait_if_needed as concurrent threads run    *)
(* it. Time is counted in ticks of datetime.now(), which several calls may *)
(* read alike; the two windows are scaled down to a few ticks.             *)
(***************************************************************************)
OneMinute == 2      \* timedelta(minutes=1), in ticks
OneDay == 4         \* timedelta(days=1), in ticks
MaxTime == 6        \* the last tick of the clock
MaxCalls == 4       \* wait_if_needed calls made in one behaviour
MaxPerMinute == 2   \* largest max_requests_per_minute a limiter is built with
MaxPerDay == 3      \* largest max_requests_per_day a limiter is built with

Threads == {"t1", "t2"}

RateLimiter(per_minute, per_day) ==
    [max_requests_per_minute |-> per_minute, max_requests_per_day |-> per_day,
     minute_requests |-> <<>>, day_requests |-> <<>>]

\* while queue and queue[0] < cutoff: queue.popleft()
RECURSIVE Prune(_, _)
Prune(queue, cutoff) ==
    IF queue # <<>> /\ Head(queue) < cutoff THEN Prune(Tail(queue), cutoff) ELSE queue

\* the two deques of a limiter
Queues(lim) == [minute_requests |-> lim.minute_requests, day_requests |-> lim.day_requests]

\* a wait_if_needed call in flight: where it is, the first reading of the clock, the
\* local variables now and wait_time, when time.sleep returns at the earliest, and the
\* deques as this call last left them
ThreadFrame(pc, entered, now, wait_time, sleep_until, seen) ==
    [pc |-> pc, entered |-> entered, now |-> now, wait_time |-> wait_time,
     sleep_until |-> sleep_until, seen |-> seen]

IdleThread == ThreadFrame("idle", 0, 0, 0, 0, Queues(RateLimiter(0, 0)))

\* a finished call: the caller, its first reading of the clock, the wait it computed,
\* how it ended ("returned" or "raised") and the timestamp it recorded
FinishedCall(t, entered, wait_time, outcome, stamp) ==
    [thread |-> t, entered |-> entered, wait_time |-> wait_time, outcome |-> outcome,
     stamp |-> stamp]

\* variant of CanAcquire without mutual exclusion
LockIgnored(holder) == TRUE

\* "with self.lock": the lock is taken only when nobody holds it
CanAcquire(holder) == holder = "none"

\* max(0, x)
Max0(x) == IF x > 0 THEN x ELSE 0

\* variant of MinuteWait that always waits a whole window
MinuteWaitWhole(oldest, now) == OneMinute

\* lines 57-59: how long until the oldest request in the window expires
MinuteWait(oldest, now) == Max0(oldest + OneMinute - now)

\* variant of DayLimitReached that lets one more request through
DayLimitExceeded(lim) == Len(lim.day_requests) > lim.max_requests_per_day

\* line 72: the day deque holds max_requests_per_day timestamps or more
DayLimitReached(lim) == Len(lim.day_requests) >= lim.max_requests_per_day

RlInit ==
    /\ clock = 0
    /\ limiter = RateLimiter(MaxPerMinute, MaxPerDay)
    /\ lock = "none"
    /\ thread = [t \in Threads |-> IdleThread]
    /\ calls = <<>>

InFlightCalls == Cardinality({t \in Threads : thread[t].pc # "idle"})

\* lines 41-50: take the lock, read the clock, drop the timestamps that left the windows
Enter(t) ==
    /\ thread[t].pc = "idle"
    /\ Len(calls) + InFlightCalls < MaxCalls
    /\ CanAcquire(lock)
    /\ lock' = t
    /\ limiter' = [limiter EXCEPT
                       !.minute_requests = Prune(@, clock - OneMinute),
                       !.day_requests = Prune(@, clock - OneDay)]
    /\ thread' = [thread EXCEPT ![t] =
                      ThreadFrame("check_minute", clock, clock, 0, 0, Queues(limiter'))]
    /\ UNCHANGED <<clock, calls, orch_vars, val_vars, cls_vars, ex_vars, fn_vars>>

\* lines 52-63: the minute limit; a positive wait puts the thread to sleep
CheckMinute(t) ==
    /\ thread[t].pc = "check_minute"
    /\ LET full == Len(limiter.minute_requests) >= limiter.max_requests_per_minute
           wait_time == IF full
                        THEN MinuteWait(Head(limiter.minute_requests), thread[t].now)
                        ELSE 0
       IN  thread' = [thread EXCEPT ![t] =
                         IF wait_time > 0
                         THEN [@ EXCEPT !.pc = "sleeping", !.wait_time = wait_time,
                                        !.sleep_until = clock + wait_time]
                         ELSE [@ EXCEPT !.pc = "check_day"]]
    /\ UNCHANGED <<clock, limiter, lock, calls, orch_vars, val_vars, cls_vars, ex_vars, fn_vars>>

\* lines 63-69: time.sleep returns; read the clock again and clean the minute deque
Wake(t) ==
    /\ thread[t].pc = "sleeping"
    /\ clock >= thread[t].sleep_until
    /\ limiter' = [limiter EXCEPT !.minute_requests = Prune(@, clock - OneMinute)]
    /\ thread' = [thread EXCEPT ![t] =
                      [@ EXCEPT !.pc = "check_day", !.now = clock, !.seen = Queues(limiter')]]
    /\ UNCHANGED <<clock, lock, calls, orch_vars, val_vars, cls_vars, ex_vars, fn_vars>>

\* variant of CheckDay that records the request before it raises
CheckDayCounting(t) ==
    /\ thread[t].pc = "check_day"
    /\ IF DayLimitReached(limiter)
       THEN /\ lock' = "none"
            /\ thread' = [thread EXCEPT ![t] = IdleThread]
            /\ calls' = Append(calls, FinishedCall(t, thread[t].entered,
                                                   thread[t].wait_time, "raised", 0))
            /\ limiter' = [limiter EXCEPT !.minute_requests = Append(@, clock),
                                          !.day_requests = Append(@, clock)]
       ELSE /\ thread' = [thread EXCEPT ![t].pc = "record"]
            /\ UNCHANGED <<lock, calls, limiter>>
    /\ UNCHANGED <<clock, orch_vars, val_vars, cls_vars, ex_vars, fn_vars>>

\* lines 71-74: the day limit; raising leaves the with-block and releases the lock
CheckDay(t) ==
    /\ thread[t].pc = "check_day"
    /\ IF DayLimitReached(limiter)
       THEN /\ lock' = "none"
            /\ thread' = [thread EXCEPT ![t] = IdleThread]
            /\ calls' = Append(calls, FinishedCall(t, thread[t].entered,
                                                   thread[t].wait_time, "raised", 0))
       ELSE /\ thread' = [thread EXCEPT ![t].pc = "record"]
            /\ UNCHANGED <<lock, calls>>
    /\ UNCHANGED <<clock, limiter, orch_vars, val_vars, cls_vars, ex_vars, fn_vars>>

\* lines 76-81: record the request in both deques and return the wait
Record(t) ==
    /\ thread[t].pc = "record"
    /\ limiter' = [limiter EXCEPT !.minute_requests = Append(@, clock),
                                  !.day_requests = Append(@, clock)]
    /\ lock' = "none"
    /\ thread' = [thread EXCEPT ![t] = IdleThread]
    /\ calls' = Append(calls, FinishedCall(t, thread[t].entered, thread[t].wait_time,
                                           "returned", clock))
    /\ UNCHANGED <<clock, orch_vars, val_vars, cls_vars, ex_vars, fn_vars>>

\* datetime.now() moves on
Tick ==
    /\ clock < MaxTime
    /\ clock' = clock + 1
    /\ UNCHANGED <<limiter, lock, thread, calls, orch_vars, val_vars, cls_vars, ex_vars, fn_vars>>

(***************************************************************************)
(* SpecV: validate_plan applied to every plan and context of the bounds    *)
(***************************************************************************)
NoResult == [raised |-> FALSE, is_valid |-> FALSE, requires_approval |-> FALSE,
             approval_reason |-> <<>>, warnings |-> <<>>, errors |-> <<>>,
             plan |-> ActionPlan(<<>>, "none")]

Users == {"u1", "u2"}

\* a process_message invocation in flight: where it is, the plan it works on, the
\* index of the step in hand, the LLM calls it has made
Frame(pc, plan, i, llm_calls) == [pc |-> pc, plan |-> plan, i |-> i, llm_calls |-> llm_calls]

IdleCall == Frame("idle", 0, 0, 0)

\* the returned mapping: text (by kind), plan (0 = None), awaiting_approval; with it,
\* what the invocation did on the way: the LLM calls it made, the data-store reads it
\* made outside the step handlers, and whether a wait_if_needed call of its raised
\* RateLimitExceededError
Response(user, text, plan, awaiting_approval, llm_calls) ==
    [user |-> user, text |-> text, plan |-> plan,
     awaiting_approval |-> awaiting_approval, llm_calls |-> llm_calls,
     persistence_calls |-> {}, rate_limit_error |-> FALSE]

\* the reads of AgentPlanner.gather_context
ContextReads == {"get_user_preferences", "get_user_inventory", "get_user_leftovers",
                 "get_user_shopping_list"}

\* the invocation called gather_context
Gathered(resp) == [resp EXCEPT !.persistence_calls = ContextReads]

\* variant of process_message that catches RateLimitExceededError only: any other
\* exception reaches the caller
process_message_rate_limit_only(exc, resp) ==
    CASE exc = "" -> resp
      [] exc = "RateLimitExceededError" ->
            [resp EXCEPT !.text = "rate_limited", !.plan = 0, !.awaiting_approval = FALSE,
                         !.rate_limit_error = TRUE]
      [] OTHER -> [resp EXCEPT !.text = "uncaught", !.plan = 0, !.awaiting_approval = FALSE]

\* the try block of process_message around the handlers: what the caller gets when
\* the handler returned resp (exc = "") or raised exc on the way to resp
process_message(exc, resp) ==
    CASE exc = "" -> resp
      [] exc = "RateLimitExceededError" ->
            [resp EXCEPT !.text = "rate_limited", !.plan = 0, !.awaiting_approval = FALSE,
                         !.rate_limit_error = TRUE]
      [] OTHER -> [resp EXCEPT !.text = "error", !.plan = 0, !.awaiting_approval = FALSE]

NoResponse == Response("", "none", 0, FALSE, 0)

OrchInit ==
    /\ pending_plans = [u \in Users |-> 0]
    /\ plans = <<>>
    /\ execution_log = <<>>
    /\ day_requests = 0
    /\ call = [u \in Users |-> IdleCall]
    /\ handler_calls = <<>>
    /\ hist = <<>>
    /\ response = NoResponse

ValInit ==
    /\ v_plan = ActionPlan(<<>>, "DRAFT")
    /\ v_ctx = AgentContext(NoPreferences, <<>>, NoWallet, 100, 0)
    /\ v_out = NoResult

\* no classify call made yet
NoClassification ==
    [request_type |-> "none", intent |-> "", target_entity |-> "",
     requires_context |-> FALSE, requires_llm |-> FALSE]

ClsInit ==
    /\ c_message = ""
    /\ c_result = NoClassification

\* process_message hands execute_plan no progress_callback and never calls
\* rollback_plan; what a handler returns is one text to it, whatever it says
ExInit ==
    /\ progress_callback = {}
    /\ handler_texts = {"Added"}
    /\ rollback_calls = <<>>
    /\ rollback_returned = "none"

\* no create_plan, gather_context or add_shopping_list_items call of the harnesses
\* has been made
NoOutcome == [raised |-> "none", returned |-> FALSE]
NoRow == [id |-> 0, items |-> <<>>]
ListInit ==
    /\ s_row = NoRow
    /\ s_added = <<>>
    /\ s_calls = 0

\* a process_message invocation of the concurrency harness: where it is, the message
\* it was given (as _handle_plan_response or the classifier reads it), and the plan
\* that pending_plans.get returned to it (0 = None)
Invocation(pc, message, plan) == [pc |-> pc, message |-> message, plan |-> plan]
NoInvocation == Invocation("idle", "", 0)

\* no reply has been sent and no invocation of the concurrency harness has begun
ConvInit ==
    /\ r_message = ""
    /\ k_inv = [t \in Threads |-> NoInvocation]
    /\ k_runs = <<>>
    /\ k_begun = 0

FnInit ==
    /\ p_llm = [kind |-> "llm_error", steps |-> <<>>, defect |-> "none"]
    /\ p_out = NoOutcome
    /\ g_fetch = <<>>
    /\ g_out = NoOutcome
    /\ ListInit
    /\ ConvInit

InitV ==
    /\ OrchInit
    /\ ClsInit
    /\ ExInit
    /\ FnInit
    /\ v_plan \in {ActionPlan(q, "DRAFT") : q \in SeqsUpTo(StepUniverse, MaxStepsV)}
    /\ v_ctx \in Contexts
    /\ v_out = NoResult
    /\ RlInit

Validate ==
    /\ v_out = NoResult
    /\ v_out' = validate_plan(v_plan, v_ctx)
    /\ v_plan' = v_out'.plan
    /\ UNCHANGED <<v_ctx, orch_vars, rl_vars, cls_vars, ex_vars, fn_vars>>

NextV == Validate

SpecV == InitV /\ [][NextV]_vars

(***************************************************************************)
(* RequestClassifier: the regular expressions of classifier.py as branches *)
(* of atoms. lit = one of a set of literal texts, any = ".*", any1 = ".+", *)
(* ws = "\s", ws1 = "\s+", end = "$". A source pattern with an optional    *)
(* group is the set of its expansions.                                     *)
(***************************************************************************)
Lit(alts) == [t |-> "lit", alts |-> alts]
AnyText == [t |-> "any", alts |-> {}]
AnyText1 == [t |-> "any1", alts |-> {}]
Ws == [t |-> "ws", alts |-> {}]
Ws1 == [t |-> "ws1", alts |-> {}]
End == [t |-> "end", alts |-> {}]

IsReSpace(c) == c \in {" ", "\t", "\n", "\r"}

\* s[i..j-1] holds no newline ("." does not match one)
NoNewline(s, i, j) == \A k \in i..(j - 1) : SubSeq(s, k, k) # "\n"

AllSpace(s, i, j) == \A k \in i..(j - 1) : IsReSpace(SubSeq(s, k, k))

\* atoms k.. of branch b match s from position i on
RECURSIVE MatchFrom(_, _, _, _)
MatchFrom(b, k, s, i) ==
    IF k > Len(b) THEN TRUE
    ELSE LET a == b[k]
         IN  CASE a.t = "lit" ->
                    \E w \in a.alts :
                        /\ i + Len(w) - 1 <= Len(s)
                        /\ SubSeq(s, i, i + Len(w) - 1) = w
                        /\ MatchFrom(b, k + 1, s, i + Len(w))
               [] a.t = "any" ->
                    \E j \in i..(Len(s) + 1) :
                        NoNewline(s, i, j) /\ MatchFrom(b, k + 1, s, j)
               [] a.t = "any1" ->
                    \E j \in (i + 1)..(Len(s) + 1) :
                        NoNewline(s, i, j) /\ MatchFrom(b, k + 1, s, j)
               [] a.t = "ws" ->
                    /\ i <= Len(s)
                    /\ IsReSpace(SubSeq(s, i, i))
                    /\ MatchFrom(b, k + 1, s, i + 1)
               [] a.t = "ws1" ->
                    \E j \in (i + 1)..(Len(s) + 1) :
                        AllSpace(s, i, j) /\ MatchFrom(b, k + 1, s, j)
               [] a.t = "end" -> i = Len(s) + 1 /\ MatchFrom(b, k + 1, s, i)

\* re.match: at the start of the text
ReMatch(b, s) == MatchFrom(b, 1, s, 1)

\* re.search: at any position
ReSearch(b, s) == \E i \in 1..(Len(s) + 1) : MatchFrom(b, 1, s, i)

GREETING_PATTERNS == <<
    <<Lit({"hi", "hello", "hey", "howdy", "greetings"}), End>>,
    <<Lit({"thanks", "thank you", "thx"}), End>>,
    <<Lit({"bye", "goodbye", "see you", "later"}), End>>,
    <<Lit({"ok", "okay", "sure", "yes", "no", "yep", "nope", "maybe"}), End>> >>

\* the patterns written with "^": they match at the start only
ACTION_PATTERNS_ANCHORED == <<
    <<Lit({"add"}), Ws>>,
    <<Lit({"remove"}), Ws>>,
    <<Lit({"delete"}), Ws>>,
    <<Lit({"buy"}), Ws>>,
    <<Lit({"purchase"}), Ws>>,
    <<Lit({"order"}), Ws>>,
    <<Lit({"get"}), Ws1, Lit({"some"})>>,
    <<Lit({"get"}), Ws1, Lit({"me"}), Ws1, Lit({"some"})>>,
    <<Lit({"put"}), Ws>>,
    <<Lit({"update"}), Ws>>,
    <<Lit({"change"}), Ws>>,
    <<Lit({"set"}), Ws>> >>

ACTION_PATTERNS == <<
    <<Lit({"add "}), AnyText1, Lit({" to "}), AnyText1, Lit({" list", " inventory", " pantry"})>>,
    <<Lit({"add ", "put ", "remove ", "delete "}), AnyText1,
      Lit({" shopping", " grocery", " my"})>>,
    <<Lit({"i need"})>>,
    <<Lit({"i want to add", "i want to buy", "i want to get", "i want to order"})>>,
    <<Lit({"can you add", "can you buy", "can you get", "can you order", "can you put",
           "can you remove", "can you delete"})>>,
    <<Lit({"please add", "please buy", "please get", "please order", "please put",
           "please remove", "please delete"})>> >>

QUESTION_PATTERNS == <<
    <<Lit({"what should i"})>>,
    <<Lit({"what can i cook", "what can i make", "what can i prepare", "what can i do"})>>,
    <<Lit({"what could i"})>>,
    <<Lit({"suggest", "recommend"})>>,
    <<Lit({"what"}), AnyText, Lit({"make"}), AnyText, Lit({"for"})>>,
    <<Lit({"any idea", "any suggestion", "any recommendation"})>>,
    <<Lit({"help me decide", "help me choose", "help me plan"})>>,
    <<Lit({"meal"}), AnyText, Lit({"plan"})>> >>

\* (what('?s| is| are)?|show( me)?|see|view|check|list|display)
ViewWords == {"what", "what's", "whats", "what is", "what are", "show", "show me",
              "see", "view", "check", "list", "display"}

\* (what('?s| is| are)?|show( me)?|see|view|check)
ViewWordsShort == {"what", "what's", "whats", "what is", "what are", "show", "show me",
                   "see", "view", "check"}

QueryEntities == <<"shopping_list", "inventory", "leftovers", "preferences">>

QUERY_PATTERNS == [e \in {"shopping_list", "inventory", "leftovers", "preferences"} |->
    CASE e = "shopping_list" -> <<
            <<Lit(ViewWords), AnyText, Lit({"shopping", "grocery", "shop"}), AnyText, Lit({"list"})>>,
            <<Lit({"shopping"}), AnyText, Lit({"list"})>>,
            <<Lit({"what"}), AnyText, Lit({"need"}), AnyText, Lit({"buy"})>>,
            <<Lit({"what"}), AnyText, Lit({"on"}), AnyText, Lit({"list"})>> >>
      [] e = "inventory" -> <<
            <<Lit(ViewWords), AnyText,
              Lit({"pantry", "inventory", "fridge", "kitchen", "have", "got"})>>,
            <<Lit({"what"}), AnyText, Lit({"ingredient", "ingredients"}), AnyText, Lit({"have"})>>,
            <<Lit({"what's", "whats", "what is"}), AnyText, Lit({"in"}), AnyText,
              Lit({"pantry", "fridge", "kitchen", "my pantry", "my fridge", "my kitchen"})>>,
            <<Lit({"do i have"})>> >>
      [] e = "leftovers" -> <<
            <<Lit(ViewWords), AnyText, Lit({"leftover"})>>,
            <<Lit({"any"}), AnyText, Lit({"leftover"})>>,
            <<Lit({"leftover"})>> >>
      [] e = "preferences" -> <<
            <<Lit(ViewWordsShort), AnyText,
              Lit({"preference", "diet", "restriction", "goal"})>>,
            <<Lit({"my"}), AnyText, Lit({"preference"})>>,
            <<Lit({"dietary"}), AnyText, Lit({"restriction"})>> >>]

\* variant of ClassifiedRequest that asks for the LLM whatever the caller passes
ClassifiedRequestLlmAlways(request_type, intent, target_entity, requires_context, requires_llm) ==
    [request_type |-> request_type, intent |-> intent, target_entity |-> target_entity,
     requires_context |-> requires_context, requires_llm |-> TRUE]

ClassifiedRequest(request_type, intent, target_entity, requires_context, requires_llm) ==
    [request_type |-> request_type, intent |-> intent, target_entity |-> target_entity,
     requires_context |-> requires_context, requires_llm |-> requires_llm]

\* the first entity, in table order, one of whose patterns is found ("" when none)
RECURSIVE FirstQueryEntity(_, _)
FirstQueryEntity(message_lower, k) ==
    IF k > Len(QueryEntities) THEN ""
    ELSE IF \E n \in 1..Len(QUERY_PATTERNS[QueryEntities[k]]) :
                ReSearch(QUERY_PATTERNS[QueryEntities[k]][n], message_lower)
         THEN QueryEntities[k]
         ELSE FirstQueryEntity(message_lower, k + 1)

\* variant of classify that consults the query patterns before the action patterns
classify_queries_first(message) ==
    LET message_lower == Strip(Lower(message))
        entity == FirstQueryEntity(message_lower, 1)
    IN  IF \E n \in 1..Len(GREETING_PATTERNS) : ReMatch(GREETING_PATTERNS[n], message_lower)
        THEN ClassifiedRequest("GREETING", "greeting", "", FALSE, FALSE)
        ELSE IF entity # ""
        THEN ClassifiedRequest("QUERY", "view " \o entity, entity, TRUE, FALSE)
        ELSE IF \/ \E n \in 1..Len(ACTION_PATTERNS_ANCHORED) :
                       ReMatch(ACTION_PATTERNS_ANCHORED[n], message_lower)
                \/ \E n \in 1..Len(ACTION_PATTERNS) :
                       ReSearch(ACTION_PATTERNS[n], message_lower)
        THEN ClassifiedRequest("ACTION", "perform action", "", TRUE, TRUE)
        ELSE IF \E n \in 1..Len(QUESTION_PATTERNS) :
                    ReSearch(QUESTION_PATTERNS[n], message_lower)
        THEN ClassifiedRequest("QUESTION", "get recommendation", "", TRUE, TRUE)
        ELSE ClassifiedRequest("UNKNOWN", "unknown", "", TRUE, TRUE)

classify(message) ==
    LET message_lower == Strip(Lower(message))
        entity == FirstQueryEntity(message_lower, 1)
    IN  IF \E n \in 1..Len(GREETING_PATTERNS) : ReMatch(GREETING_PATTERNS[n], message_lower)
        THEN ClassifiedRequest("GREETING", "greeting", "", FALSE, FALSE)
        ELSE IF \/ \E n \in 1..Len(ACTION_PATTERNS_ANCHORED) :
                       ReMatch(ACTION_PATTERNS_ANCHORED[n], message_lower)
                \/ \E n \in 1..Len(ACTION_PATTERNS) :
                       ReSearch(ACTION_PATTERNS[n], message_lower)
        THEN ClassifiedRequest("ACTION", "perform action", "", TRUE, TRUE)
        ELSE IF \E n \in 1..Len(QUESTION_PATTERNS) :
                    ReSearch(QUESTION_PATTERNS[n], message_lower)
        THEN ClassifiedRequest("QUESTION", "get recommendation", "", TRUE, TRUE)
        ELSE IF entity # ""
        THEN ClassifiedRequest("QUERY", "view " \o entity, entity, TRUE, FALSE)
        ELSE ClassifiedRequest("UNKNOWN", "unknown", "", TRUE, TRUE)

(***************************************************************************)
(* RateLimiter.wait_if_needed, day window: `expired` timestamps have left  *)
(* the 24 h window since the last call and are pruned first                *)
(***************************************************************************)
max_requests_per_day == 1    \* the configured daily quota, scaled down

wait_if_needed(requests, expired) ==
    LET pruned == requests - expired
    IN  IF pruned >= max_requests_per_day
        THEN [raised |-> TRUE, day_requests |-> pruned]
        ELSE [raised |-> FALSE, day_requests |-> pruned + 1]

(***************************************************************************)
(* Orchestrator                                                            *)
(***************************************************************************)
approval_words == <<"yes", "y", "ok", "okay", "sure", "go", "do it", "approve",
                    "proceed", "yep", "yup">>
rejection_words == <<"no", "n", "cancel", "stop", "nevermind", "never mind", "nope", "nah">>

\* any(word in text for word in words)
AnyWordIn(words, text) == \E k \in 1..Len(words) : Contains(text, words[k])

\* variant of ReplyKind that takes every reply that is not a rejection for an approval
ReplyKindLenient(message) ==
    LET message_lower == Strip(Lower(message))
    IN  IF AnyWordIn(approval_words, message_lower) THEN "approve"
        ELSE IF AnyWordIn(rejection_words, message_lower) THEN "reject"
        ELSE "approve"

\* variant of ReplyKind that looks for a rejection word first
ReplyKindRejectionFirst(message) ==
    LET message_lower == Strip(Lower(message))
    IN  IF AnyWordIn(rejection_words, message_lower) THEN "reject"
        ELSE IF AnyWordIn(approval_words, message_lower) THEN "approve"
        ELSE "unclear"

\* how _handle_plan_response reads the reply to a pending plan
ReplyKind(message) ==
    LET message_lower == Strip(Lower(message))
    IN  IF AnyWordIn(approval_words, message_lower) THEN "approve"
        ELSE IF AnyWordIn(rejection_words, message_lower) THEN "reject"
        ELSE "unclear"

Messages == {"hi", " No ", "add milk to my shopping list",
             "what's in my shopping list", "what should i cook now"}

RequestTypeOf == [m \in Messages |-> classify(m).request_type]
\* replies to a pending plan: with an approval word only, with a rejection word only,
\* with words of both lists, with none
Replies == {"yes", " Okay", "do it", "cancel", "STOP", "nope", "N", "no way",
            "ok, no", "not yet", "never mind", "no, go ahead", "hmm", "wait", ""}

ReplyOf == [m \in Messages \cup Replies \cup {"cancel"} |-> ReplyKind(m)]

\* what the LLM answers to the planning prompt: a transport error, text that is
\* not JSON, or JSON carrying a list of steps
\* (no step; MaxSteps free additions; a bulk removal followed by free additions; a
\* purchase; a malformed items value)
Additions(n) == [i \in 1..n |-> S_add]
RemovalThen(n) == [i \in 1..n |-> IF i = 1 THEN S_rm6 ELSE S_add]

LlmResponse(kind, steps) == [kind |-> kind, steps |-> steps, defect |-> "none"]
LlmPlans == {LlmResponse("llm_error", <<>>), LlmResponse("bad_json", <<>>)}
            \cup {LlmResponse("json", Additions(n)) : n \in {0, MaxSteps}}
            \cup {LlmResponse("json", RemovalThen(n)) : n \in {MaxSteps}}
            \cup {LlmResponse("json", <<S_buy>>), LlmResponse("json", <<S_addbad>>)}

\* the snapshots gather_context hands to the planner and the validator
GatheredContexts == {AgentContext(NoPreferences, <<>>, NoWallet, 100, 0),
                     AgentContext(Preferences(<<"Vegan">>), <<DictItem("milk")>>,
                                  Wallet(10), 15, 0)}

\* the minimal plan create_plan and _parse_plan_response return on an error
FallbackPlan == ActionPlan(<<>>, "FAILED")

\* json.loads on the response text, code fences stripped: the text is JSON or
\* JSONDecodeError is raised (no candidate leaves the text empty)
JsonLoads(kind) ==
    IF kind \in {"json", "fenced_json"} THEN "none" ELSE "JSONDecodeError"

\* what walking the parsed JSON raises: .get on a value that is no object, a
\* steps value that cannot be iterated, .get on a step that is no object, float()
\* of a cost that is no number; a missing steps key reads as no step
WalkRaises(defect) ==
    CASE defect \in {"not_object", "step_not_object"} -> "AttributeError"
      [] defect = "steps_null" -> "TypeError"
      [] defect = "cost_not_numeric" -> "ValueError"
      [] OTHER -> "none"

\* _parse_plan_response: the plan it returns, or the exception it lets through
\* (it catches json.JSONDecodeError only)
_parse_plan_response(llm) ==
    IF JsonLoads(llm.kind) # "none"
    THEN [raised |-> "none", plan |-> FallbackPlan]
    ELSE IF WalkRaises(llm.defect) # "none"
    THEN [raised |-> WalkRaises(llm.defect), plan |-> FallbackPlan]
    ELSE [raised |-> "none",
          plan |-> ActionPlan(IF llm.defect = "steps_missing" THEN <<>> ELSE llm.steps,
                              "DRAFT")]

\* the body of the try block of create_plan: the LLM call, the walk over
\* response.candidates, the parse
PlanAttempt(llm) ==
    CASE llm.kind = "llm_error" -> [raised |-> "Exception", plan |-> FallbackPlan]
      [] llm.kind = "candidates_none" -> [raised |-> "TypeError", plan |-> FallbackPlan]
      [] OTHER -> _parse_plan_response(llm)

\* variant of CaughtByCreatePlan that lets everything but a JSON error through
CaughtJsonErrorsOnly(exception) == exception = "JSONDecodeError"

\* except Exception of create_plan
CaughtByCreatePlan(exception) == TRUE

\* the exception that leaves create_plan ("none" when it returns)
create_plan_raises(llm) ==
    LET attempt == PlanAttempt(llm)
    IN  IF attempt.raised # "none" /\ ~CaughtByCreatePlan(attempt.raised)
        THEN attempt.raised ELSE "none"

create_plan(llm) ==
    LET attempt == PlanAttempt(llm)
    IN  IF attempt.raised # "none" THEN FallbackPlan ELSE attempt.plan

\* variant of ActionOutcome without the approval gate
ActionOutcomeUngated(plan, validation) ==
    IF plan.status = "FAILED" \/ plan.steps = <<>> THEN "clarify"
    ELSE IF validation.raised THEN "error"
    ELSE IF validation.errors # <<>> THEN "validation_errors"
    ELSE "execute"

\* variant of ActionOutcome that does not stop at validation errors
ActionOutcomeIgnoringErrors(plan, validation) ==
    IF plan.status = "FAILED" \/ plan.steps = <<>> THEN "clarify"
    ELSE IF validation.raised THEN "error"
    ELSE IF validation.requires_approval THEN "plan_display"
    ELSE "execute"

\* variant of ActionOutcome that asks for approval of every valid plan
ActionOutcomeAlwaysAsk(plan, validation) ==
    IF plan.status = "FAILED" \/ plan.steps = <<>> THEN "clarify"
    ELSE IF validation.raised THEN "error"
    ELSE IF validation.errors # <<>> THEN "validation_errors"
    ELSE "plan_display"

\* _handle_action after planning: which way the workflow goes
ActionOutcome(plan, validation) ==
    IF plan.status = "FAILED" \/ plan.steps = <<>> THEN "clarify"
    ELSE IF validation.raised THEN "error"
    ELSE IF validation.errors # <<>> THEN "validation_errors"
    ELSE IF validation.requires_approval THEN "plan_display"
    ELSE "execute"

\* what _handle_action learnt about a plan before deciding which way to go
Verdict(plan, validation) ==
    LET planning_failed == plan.status = "FAILED" \/ plan.steps = <<>>
    IN  [planning_failed |-> planning_failed,
         raised |-> ~planning_failed /\ validation.raised,
         has_errors |-> ~planning_failed /\ validation.errors # <<>>,
         requires_approval |-> ~planning_failed /\ validation.requires_approval]

PlanHistory(owner, verdict) ==
    [owner |-> owner, verdict |-> verdict, approved_by |-> "", rejected_by |-> ""]

\* variant of DelPending that leaves the entry in the map
KeepPending(pending, user_id) == pending

\* variant of DelPending that empties the map
DelPendingOfAll(pending, user_id) == [u \in DOMAIN pending |-> 0]

\* del self.pending_plans[user_id]
DelPending(pending, user_id) == [pending EXCEPT ![user_id] = 0]

HandleGreeting(u, m) ==
    /\ call[u].pc = "idle"
    /\ pending_plans[u] = 0
    /\ RequestTypeOf[m] = "GREETING"
    /\ response' = process_message("", Response(u, "greeting", 0, FALSE, 0))
    /\ UNCHANGED <<pending_plans, plans, execution_log, day_requests, call, handler_calls,
                   hist, val_vars, rl_vars, cls_vars, ex_vars, fn_vars>>

\* variant of HandleQuery that takes a rate-limiter slot and asks the LLM to word
\* the answer
HandleQueryViaLlm(u, m) ==
    /\ call[u].pc = "idle"
    /\ pending_plans[u] = 0
    /\ RequestTypeOf[m] = "QUERY"
    /\ day_requests' = day_requests + 1
    /\ response' = process_message("", Gathered(Response(u, "query", 0, FALSE, 1)))
    /\ UNCHANGED <<pending_plans, plans, execution_log, call, handler_calls,
                   hist, val_vars, rl_vars, cls_vars, ex_vars, fn_vars>>

HandleQuery(u, m) ==
    /\ call[u].pc = "idle"
    /\ pending_plans[u] = 0
    /\ RequestTypeOf[m] = "QUERY"
    /\ response' = process_message("", Gathered(Response(u, "query", 0, FALSE, 0)))
    /\ UNCHANGED <<pending_plans, plans, execution_log, day_requests, call, handler_calls,
                   hist, val_vars, rl_vars, cls_vars, ex_vars, fn_vars>>

HandleQuestion(u, m) ==
    /\ call[u].pc = "idle"
    /\ pending_plans[u] = 0
    /\ RequestTypeOf[m] \in {"QUESTION", "UNKNOWN"}
    /\ \E expired \in 0..day_requests, llm_ok \in BOOLEAN :
          LET rl == wait_if_needed(day_requests, expired)
          IN  /\ day_requests' = rl.day_requests
              /\ response' =
                    IF rl.raised
                    THEN process_message("RateLimitExceededError",
                                         Gathered(Response(u, "question", 0, FALSE, 0)))
                    ELSE process_message("",
                             Gathered(Response(u, IF llm_ok THEN "question"
                                                  ELSE "question_fallback", 0, FALSE, 1)))
    /\ UNCHANGED <<pending_plans, plans, execution_log, call, handler_calls, hist, val_vars, rl_vars, cls_vars, ex_vars, fn_vars>>

\* _handle_action once the validator has answered: the way the workflow goes,
\* what was learnt about the plan, and the plan as the handler leaves it
AfterValidation(plan, validation) ==
    [outcome |-> ActionOutcome(plan, validation),
     verdict |-> Verdict(plan, validation),
     plan |-> CASE ActionOutcome(plan, validation) = "clarify" -> plan
                [] ActionOutcome(plan, validation) = "execute" ->
                      [validation.plan EXCEPT !.status = "APPROVED"]
                [] OTHER -> validation.plan]

\* _handle_action once the planner has answered
AfterPlanning(plan, context) == AfterValidation(plan, validate_plan(plan, context))

\* planning and validation of every LLM answer under every gathered context
Planned == [llm \in LlmPlans, context \in GatheredContexts |->
               AfterPlanning(create_plan(llm), context)]

HandleAction(u, m) ==
    /\ call[u].pc = "idle"
    /\ pending_plans[u] = 0
    /\ RequestTypeOf[m] = "ACTION"
    /\ Len(plans) < MaxPlans
    /\ \E context \in GatheredContexts, expired \in 0..day_requests, llm \in LlmPlans :
       \E planned \in {Planned[llm, context]}, outcome \in {Planned[llm, context].outcome} :
          LET rl == wait_if_needed(day_requests, expired)
              pid == Len(plans) + 1
          IN  /\ day_requests' = rl.day_requests
              /\ IF rl.raised
                 THEN /\ response' =
                            process_message("RateLimitExceededError",
                                            Gathered(Response(u, "clarify", 0, FALSE, 0)))
                      /\ UNCHANGED <<plans, pending_plans, hist, handler_calls, call>>
                 ELSE /\ plans' = Append(plans, planned.plan)
                      /\ handler_calls' = Append(handler_calls, <<>>)
                      /\ hist' = Append(hist, PlanHistory(u, planned.verdict))
                      /\ pending_plans' = IF outcome = "plan_display"
                                          THEN [pending_plans EXCEPT ![u] = pid]
                                          ELSE pending_plans
                      /\ call' = IF outcome = "execute"
                                 THEN [call EXCEPT ![u] = Frame("execute", pid, 0, 1)]
                                 ELSE call
                      /\ response' =
                            CASE outcome = "execute" -> NoResponse
                              [] outcome = "plan_display" ->
                                    process_message("",
                                        Gathered(Response(u, "plan_display", pid, TRUE, 1)))
                              [] outcome = "validation_errors" ->
                                    process_message("",
                                        Gathered(Response(u, "validation_errors", pid,
                                                          FALSE, 1)))
                              [] outcome = "error" ->
                                    process_message("TypeError",
                                        Gathered(Response(u, "validation_errors", pid,
                                                          FALSE, 1)))
                              [] OTHER ->
                                    process_message("",
                                        Gathered(Response(u, "clarify", 0, FALSE, 1)))
    /\ UNCHANGED <<execution_log, val_vars, rl_vars, cls_vars, ex_vars, fn_vars>>

HandlePlanResponse(u, m) ==
    /\ call[u].pc = "idle"
    /\ pending_plans[u] # 0
    /\ LET plan == pending_plans[u]
           reply == ReplyOf[m]
       IN  CASE reply = "approve" ->
                  /\ pending_plans' = DelPending(pending_plans, u)
                  /\ plans' = [plans EXCEPT ![plan].status = "APPROVED"]
                  /\ hist' = [hist EXCEPT ![plan].approved_by = u]
                  /\ call' = [call EXCEPT ![u] = Frame("execute", plan, 0, 0)]
                  /\ response' = NoResponse
             [] reply = "reject" ->
                  /\ pending_plans' = DelPending(pending_plans, u)
                  /\ hist' = [hist EXCEPT ![plan].rejected_by = u]
                  /\ response' = process_message("", Response(u, "cancelled", 0, FALSE, 0))
                  /\ UNCHANGED <<plans, call>>
             [] OTHER ->
                  /\ response' = process_message("", Response(u, "reprompt", plan, TRUE, 0))
                  /\ UNCHANGED <<pending_plans, plans, hist, call>>
    /\ UNCHANGED <<execution_log, day_requests, handler_calls, val_vars, rl_vars, cls_vars, ex_vars, fn_vars>>

(***************************************************************************)
(* AgentExecutor.execute_plan, one action per position of the loop         *)
(***************************************************************************)
HandlerCall(step, outcome) == [step |-> step, outcome |-> outcome]

LogEntry(plan, step, action, status) ==
    [plan |-> plan, step_id |-> step, action |-> action, status |-> status]

\* variant of Executable under which execute_plan refuses every plan
NeverExecutable(plan) == FALSE

\* variant of Executable under which execute_plan runs every plan not yet run
ExecutableUnlessRun(plan) == plan.status \notin {"EXECUTING", "COMPLETED", "FAILED"}

\* execute_plan runs only a plan that is APPROVED
Executable(plan) == plan.status = "APPROVED"

\* variant of FinalStatus under which one failed step fails the plan
FinalStatusStrict(plan) ==
    IF get_failed_steps(plan) = <<>> THEN "COMPLETED" ELSE "FAILED"

\* "Determine final status"
FinalStatus(plan) ==
    IF get_failed_steps(plan) = <<>> THEN "COMPLETED"
    ELSE IF get_completed_steps(plan) = <<>> THEN "FAILED"
    ELSE "COMPLETED"

FinalSummary(plan) ==
    IF get_failed_steps(plan) = <<>> THEN "all_completed"
    ELSE IF get_completed_steps(plan) = <<>> THEN "all_failed"
    ELSE "some_failed"

ExecBegin(u) ==
    /\ call[u].pc = "execute"
    /\ LET p == call[u].plan
       IN  IF ~Executable(plans[p])
           THEN /\ call' = [call EXCEPT ![u].pc = "respond"]
                /\ UNCHANGED plans
           ELSE /\ plans' = [plans EXCEPT ![p].status = "EXECUTING"]
                /\ call' = [call EXCEPT ![u].pc = "loop", ![u].i = 1]
    /\ response' = NoResponse
    /\ UNCHANGED <<pending_plans, execution_log, day_requests, handler_calls, hist, val_vars, rl_vars, cls_vars, ex_vars, fn_vars>>

\* progress_callback(step, event) throws
CallbackThrows(event) == event \in progress_callback

\* what a handler hands back: a confirmation, or the text it makes of a failed
\* data-store call ("Failed to add items: ...")
HandlerResults == {"Added", "Failed to add"}

StepBegin(u) ==
    /\ call[u].pc = "loop"
    /\ call[u].i <= Len(plans[call[u].plan].steps)
    /\ LET p == call[u].plan
           i == call[u].i
       IN  /\ plans' = [plans EXCEPT ![p].steps[i].status = "EXECUTING"]
           /\ IF CallbackThrows("executing")
              THEN /\ call' = [call EXCEPT ![u].pc = "except"]
                   /\ UNCHANGED handler_calls
              ELSE /\ handler_calls' =
                          [handler_calls EXCEPT ![p] = Append(@, HandlerCall(i, "running"))]
                   /\ call' = [call EXCEPT ![u].pc = "handler"]
    /\ response' = NoResponse
    /\ UNCHANGED <<pending_plans, execution_log, day_requests, hist, val_vars, rl_vars, cls_vars, ex_vars, fn_vars>>

StepReturn(u) ==
    /\ call[u].pc = "handler"
    /\ \E result \in handler_texts :
       LET p == call[u].plan
           i == call[u].i
       IN  /\ plans' = [plans EXCEPT ![p].steps[i].result = result,
                                     ![p].steps[i].status = "COMPLETED",
                                     ![p].steps[i].executed_at = TRUE]
           /\ execution_log' = Append(execution_log,
                  LogEntry(p, i, plans[p].steps[i].action, "completed"))
           /\ handler_calls' = [handler_calls EXCEPT
                  ![p][Len(handler_calls[p])].outcome = "returned"]
           /\ call' = IF CallbackThrows("completed")
                      THEN [call EXCEPT ![u].pc = "except"]
                      ELSE [call EXCEPT ![u].pc = "loop", ![u].i = i + 1]
    /\ response' = NoResponse
    /\ UNCHANGED <<pending_plans, day_requests, hist, val_vars, rl_vars, cls_vars, ex_vars, fn_vars>>

\* variant of StepThrow in which the exception ends the loop over the steps
StepThrowAbort(u) ==
    /\ call[u].pc = "handler"
    /\ LET p == call[u].plan
           i == call[u].i
       IN  /\ plans' = [plans EXCEPT ![p].steps[i].status = "FAILED",
                                     ![p].steps[i].error = "text",
                                     ![p].steps[i].executed_at = TRUE]
           /\ execution_log' = Append(execution_log,
                  LogEntry(p, i, plans[p].steps[i].action, "failed"))
           /\ handler_calls' = [handler_calls EXCEPT
                  ![p][Len(handler_calls[p])].outcome = "threw"]
           /\ call' = [call EXCEPT ![u].pc = "loop", ![u].i = Len(plans[p].steps) + 1]
    /\ response' = NoResponse
    /\ UNCHANGED <<pending_plans, day_requests, hist, val_vars, rl_vars, cls_vars, ex_vars, fn_vars>>

\* the handler throws: the except block of the loop body
StepThrow(u) ==
    /\ call[u].pc = "handler"
    /\ LET p == call[u].plan
           i == call[u].i
       IN  /\ plans' = [plans EXCEPT ![p].steps[i].status = "FAILED",
                                     ![p].steps[i].error = "text",
                                     ![p].steps[i].executed_at = TRUE]
           /\ execution_log' = Append(execution_log,
                  LogEntry(p, i, plans[p].steps[i].action, "failed"))
           /\ handler_calls' = [handler_calls EXCEPT
                  ![p][Len(handler_calls[p])].outcome = "threw"]
           /\ call' = IF CallbackThrows("failed")
                      THEN [call EXCEPT ![u].pc = "raised"]
                      ELSE [call EXCEPT ![u].pc = "loop", ![u].i = i + 1]
    /\ response' = NoResponse
    /\ UNCHANGED <<pending_plans, day_requests, hist, val_vars, rl_vars, cls_vars, ex_vars, fn_vars>>

\* progress_callback threw inside the try: the except block of the loop body; an
\* exception of the callback inside the except block leaves execute_plan
StepExcept(u) ==
    /\ call[u].pc = "except"
    /\ LET p == call[u].plan
           i == call[u].i
       IN  /\ plans' = [plans EXCEPT ![p].steps[i].status = "FAILED",
                                     ![p].steps[i].error = "text",
                                     ![p].steps[i].executed_at = TRUE]
           /\ execution_log' = Append(execution_log,
                  LogEntry(p, i, plans[p].steps[i].action, "failed"))
           /\ call' = IF CallbackThrows("failed")
                      THEN [call EXCEPT ![u].pc = "raised"]
                      ELSE [call EXCEPT ![u].pc = "loop", ![u].i = i + 1]
    /\ response' = NoResponse
    /\ UNCHANGED <<pending_plans, day_requests, handler_calls, hist, val_vars, rl_vars, cls_vars, ex_vars, fn_vars>>

ExecFinish(u) ==
    /\ call[u].pc = "loop"
    /\ call[u].i > Len(plans[call[u].plan].steps)
    /\ LET p == call[u].plan
       IN  plans' = [plans EXCEPT ![p].status = FinalStatus(plans[p]),
                                  ![p].execution_summary = FinalSummary(plans[p]),
                                  ![p].completed_at = TRUE]
    /\ call' = [call EXCEPT ![u].pc = "respond"]
    /\ response' = NoResponse
    /\ UNCHANGED <<pending_plans, execution_log, day_requests, handler_calls, hist, val_vars, rl_vars, cls_vars, ex_vars, fn_vars>>

(***************************************************************************)
(* AgentExecutor.rollback_plan                                             *)
(***************************************************************************)
rollback_actions ==
    [a \in {"addToShoppingList", "createShoppingListItems", "createInventoryItems",
            "addLeftover", "createLeftoverItems"} |->
        CASE a = "addToShoppingList" -> "removeFromShoppingList"
          [] a = "createShoppingListItems" -> "deleteShoppingListItems"
          [] a = "createInventoryItems" -> "deleteInventoryItem"
          [] a = "addLeftover" -> "removeLeftover"
          [] a = "createLeftoverItems" -> "deleteLeftoverItem"]

\* rollback_actions.get(step.action) is not None
HasInverse(action) == action \in DOMAIN rollback_actions

\* the positions of the steps that plan.get_completed_steps() returns, in plan order
RECURSIVE CompletedFrom(_, _)
CompletedFrom(steps, i) ==
    IF i > Len(steps) THEN <<>>
    ELSE (IF steps[i].status = "COMPLETED" THEN <<i>> ELSE <<>>)
             \o CompletedFrom(steps, i + 1)

\* reversed(...)
Reversed(q) == [k \in 1..Len(q) |-> q[Len(q) + 1 - k]]

\* item.get("item") or item.get("name") or "", for a dict; the string itself
RollbackItemName(item) ==
    IF item.kind = "str" THEN item.item
    ELSE IF "item" \in item.keys /\ item.item # "" THEN item.item
    ELSE IF "name" \in item.keys THEN item.name
    ELSE ""

\* i.get("item_name", i.get("name", "")): the entries of the model carry no item_name
InventoryItemName(item) == IF "name" \in item.keys THEN item.name ELSE ""

\* params.get("items", []) of the step
ItemsOrEmpty(parameters) ==
    IF parameters.items.kind = "absent" THEN ListOf(<<>>) ELSE parameters.items

\* _build_rollback_params raises: it iterates an items value that is not iterable
BuildRollbackParamsRaises(step) ==
    /\ step.action \in {"addToShoppingList", "createShoppingListItems", "createInventoryItems"}
    /\ ItemsOrEmpty(step.parameters).kind = "scalar"

_build_rollback_params(step) ==
    LET items == ItemsOrEmpty(step.parameters).val
        dicts == SelectSeq(items, LAMBDA it : it.kind = "dict")
    IN  IF step.action \in {"addToShoppingList", "createShoppingListItems"}
        THEN Params(Absent,
                    ListOf(SelectSeq([k \in 1..Len(items) |-> RollbackItemName(items[k])],
                                     LAMBDA n : n # "")))
        ELSE IF step.action = "createInventoryItems"
        THEN Params(Absent,
                    ListOf([k \in 1..Len(dicts) |-> InventoryItemName(dicts[k])]))
        ELSE IF step.action \in {"addLeftover", "createLeftoverItems"}
        THEN Params(Absent, Absent)
        ELSE step.parameters

\* one handle_function_call made by rollback_plan through execute_single_step, for
\* the step at position for_step; status is where the rollback step ended
RollbackCall(for_step, action, parameters, status) ==
    [for_step |-> for_step, action |-> action, parameters |-> parameters,
     status |-> status]

\* variant of RollsBack that takes the failed steps for steps to undo as well
RollsBackFailedToo(step) ==
    /\ step.status \in {"COMPLETED", "FAILED"}
    /\ HasInverse(step.action)
    /\ ~BuildRollbackParamsRaises(step)

\* the loop body reaches execute_single_step for this completed step
RollsBack(step) ==
    /\ step.status = "COMPLETED"
    /\ HasInverse(step.action)
    /\ ~BuildRollbackParamsRaises(step)

\* the positions, in the order of the loop, for which a handler call is made
RollbackOrder(plan) ==
    SelectSeq(Reversed([k \in 1..Len(plan.steps) |-> k]),
              LAMBDA i : RollsBack(plan.steps[i]))

\* execute_single_step: COMPLETED when the handler returns, FAILED when it throws
SingleStepStatus(outcome) == IF outcome = "returned" THEN "COMPLETED" ELSE "FAILED"

\* rollback_plan on the plan of the invocation, once execute_plan has returned or
\* raised
Rollback(u) ==
    /\ call[u].pc \in {"respond", "raised"}
    /\ rollback_returned = "none"
    /\ LET plan == plans[call[u].plan]
           order == RollbackOrder(plan)
       IN  IF CompletedFrom(plan.steps, 1) = <<>>
           THEN /\ rollback_returned' = "False"
                /\ UNCHANGED rollback_calls
           ELSE /\ rollback_returned' = "True"
                /\ \E outcomes \in [1..Len(order) -> {"returned", "threw"}] :
                      rollback_calls' =
                          [k \in 1..Len(order) |->
                              RollbackCall(order[k],
                                           rollback_actions[plan.steps[order[k]].action],
                                           _build_rollback_params(plan.steps[order[k]]),
                                           SingleStepStatus(outcomes[k]))]
    /\ UNCHANGED <<orch_vars, val_vars, rl_vars, cls_vars, progress_callback, handler_texts, fn_vars>>

\* variant of NeedsLlmSummary that asks the LLM for every summary
NeedsLlmSummaryAlways(plan) == TRUE

\* _generate_completion_response: the summary of two or more completed steps costs
\* one rate-limited LLM call, any failure of which falls back to the rewrite
NeedsLlmSummary(plan) == Len(get_completed_steps(plan)) > 1

Respond(u) ==
    /\ call[u].pc = "respond"
    /\ LET p == call[u].plan
           \* _handle_action gathers the context; _handle_plan_response does not
           sofar == IF hist[p].approved_by = ""
                    THEN Gathered(Response(u, "completion", p, FALSE, call[u].llm_calls))
                    ELSE Response(u, "completion", p, FALSE, call[u].llm_calls)
       IN  IF NeedsLlmSummary(plans[p])
           THEN \E expired \in 0..day_requests :
                   LET rl == wait_if_needed(day_requests, expired)
                   IN  /\ day_requests' = rl.day_requests
                       /\ response' = process_message("",
                              [sofar EXCEPT !.rate_limit_error = rl.raised,
                                            !.llm_calls = @ + (IF rl.raised THEN 0 ELSE 1)])
           ELSE /\ response' = process_message("", sofar)
                /\ UNCHANGED day_requests
    /\ call' = [call EXCEPT ![u] = IdleCall]
    /\ UNCHANGED <<pending_plans, plans, execution_log, handler_calls, hist, val_vars, rl_vars, cls_vars, ex_vars, fn_vars>>

Init == OrchInit /\ ValInit /\ RlInit /\ ClsInit /\ ExInit /\ FnInit

Next ==
    \/ \E u \in Users, m \in Messages : HandleGreeting(u, m)
    \/ \E u \in Users, m \in Messages : HandleQuery(u, m)
    \/ \E u \in Users, m \in Messages : HandleQuestion(u, m)
    \/ \E u \in Users, m \in Messages : HandleAction(u, m)
    \/ \E u \in Users, m \in Messages : HandlePlanResponse(u, m)
    \/ \E u \in Users : ExecBegin(u)
    \/ \E u \in Users : StepBegin(u)
    \/ \E u \in Users : StepReturn(u)
    \/ \E u \in Users : StepThrow(u)
    \/ \E u \in Users : ExecFinish(u)
    \/ \E u \in Users : Respond(u)

Spec == Init /\ [][Next]_vars

(***************************************************************************)
(* SpecK: process_message called from several threads for one user. The    *)
(* orchestrator takes no lock, so the invocations interleave between their *)
(* accesses to pending_plans and to the plan objects; everything an        *)
(* invocation does between two such accesses is local to it.               *)
(***************************************************************************)
MaxInvocations == 4    \* process_message invocations begun in one behaviour

\* an approval, a rejection, a request that needs a plan
ConcurrentMessages == {"yes", "cancel", "add milk to my shopping list"}

ConcurrentTypeOf == [m \in ConcurrentMessages |-> classify(m).request_type]

InitK == Init

\* process_message up to the routing: pending_plans.get(user_id), then either
\* _handle_plan_response or the classifier; the handlers of greetings, queries and
\* questions do not touch pending_plans and end the invocation
BeginInvocation(t, m) ==
    /\ k_inv[t].pc = "idle"
    /\ k_begun < MaxInvocations
    /\ k_begun' = k_begun + 1
    /\ LET pending_plan == pending_plans["u1"]
       IN  k_inv' = [k_inv EXCEPT ![t] =
                        IF pending_plan # 0 THEN Invocation("reply", m, pending_plan)
                        ELSE IF ConcurrentTypeOf[m] = "ACTION"
                             THEN Invocation("action", m, 0)
                             ELSE NoInvocation]
    /\ UNCHANGED <<orch_vars, val_vars, rl_vars, cls_vars, ex_vars, plan_vars, ctx_vars,
                   list_vars, r_message, k_runs>>

\* _handle_action: the plan is made and validated, then stored for approval or
\* approved on the spot
StorePlan(t) ==
    /\ k_inv[t].pc = "action"
    /\ Len(plans) < MaxPlans
    /\ \E context \in GatheredContexts, expired \in 0..day_requests, llm \in LlmPlans :
          LET rl == wait_if_needed(day_requests, expired)
              planned == Planned[llm, context]
              pid == Len(plans) + 1
          IN  /\ day_requests' = rl.day_requests
              /\ IF rl.raised
                 THEN /\ k_inv' = [k_inv EXCEPT ![t] = NoInvocation]
                      /\ UNCHANGED <<plans, pending_plans, hist, handler_calls, k_runs>>
                 ELSE /\ plans' = Append(plans, planned.plan)
                      /\ handler_calls' = Append(handler_calls, <<>>)
                      /\ hist' = Append(hist, PlanHistory("u1", planned.verdict))
                      /\ k_runs' = Append(k_runs, 0)
                      /\ pending_plans' = IF planned.outcome = "plan_display"
                                          THEN [pending_plans EXCEPT !["u1"] = pid]
                                          ELSE pending_plans
                      /\ k_inv' = [k_inv EXCEPT ![t] =
                                       IF planned.outcome = "execute"
                                       THEN Invocation("execute", k_inv[t].message, pid)
                                       ELSE NoInvocation]
    /\ UNCHANGED <<execution_log, call, response, val_vars, rl_vars, cls_vars, ex_vars,
                   plan_vars, ctx_vars, list_vars, r_message, k_begun>>

\* _handle_plan_response up to `del self.pending_plans[ctx.user_id]`, which raises
\* KeyError when the entry is gone; process_message catches it
ReadReply(t) ==
    /\ k_inv[t].pc = "reply"
    /\ LET reply == ReplyOf[k_inv[t].message]
           plan == k_inv[t].plan
       IN  CASE reply = "unclear" ->
                  /\ k_inv' = [k_inv EXCEPT ![t] = NoInvocation]
                  /\ UNCHANGED <<pending_plans, hist>>
             [] pending_plans["u1"] = 0 ->
                  /\ k_inv' = [k_inv EXCEPT ![t] = NoInvocation]
                  /\ UNCHANGED <<pending_plans, hist>>
             [] reply = "approve" ->
                  /\ pending_plans' = DelPending(pending_plans, "u1")
                  /\ hist' = [hist EXCEPT ![plan].approved_by = "u1"]
                  /\ k_inv' = [k_inv EXCEPT ![t].pc = "approved"]
             [] OTHER ->
                  /\ pending_plans' = DelPending(pending_plans, "u1")
                  /\ hist' = [hist EXCEPT ![plan].rejected_by = "u1"]
                  /\ k_inv' = [k_inv EXCEPT ![t] = NoInvocation]
    /\ UNCHANGED <<plans, execution_log, day_requests, call, handler_calls, response,
                   val_vars, rl_vars, cls_vars, ex_vars, plan_vars, ctx_vars, list_vars,
                   r_message, k_runs, k_begun>>

\* plan.status = PlanStatus.APPROVED
MarkApproved(t) ==
    /\ k_inv[t].pc = "approved"
    /\ plans' = [plans EXCEPT ![k_inv[t].plan].status = "APPROVED"]
    /\ k_inv' = [k_inv EXCEPT ![t].pc = "execute"]
    /\ UNCHANGED <<pending_plans, execution_log, day_requests, call, handler_calls, hist,
                   response, val_vars, rl_vars, cls_vars, ex_vars, plan_vars, ctx_vars,
                   list_vars, r_message, k_runs, k_begun>>

\* execute_plan up to its loop: a plan that is not APPROVED is returned as it is
EnterExecution(t) ==
    /\ k_inv[t].pc = "execute"
    /\ LET plan == k_inv[t].plan
       IN  IF plans[plan].status # "APPROVED"
           THEN /\ k_inv' = [k_inv EXCEPT ![t] = NoInvocation]
                /\ UNCHANGED <<plans, k_runs>>
           ELSE /\ plans' = [plans EXCEPT ![plan].status = "EXECUTING"]
                /\ k_runs' = [k_runs EXCEPT ![plan] = @ + 1]
                /\ k_inv' = [k_inv EXCEPT ![t].pc = "executing"]
    /\ UNCHANGED <<pending_plans, execution_log, day_requests, call, handler_calls, hist,
                   response, val_vars, rl_vars, cls_vars, ex_vars, plan_vars, ctx_vars,
                   list_vars, r_message, k_begun>>

\* the loop of execute_plan and the final status of the plan
LeaveExecution(t) ==
    /\ k_inv[t].pc = "executing"
    /\ \E status \in {"COMPLETED", "FAILED"} :
          plans' = [plans EXCEPT ![k_inv[t].plan].status = status]
    /\ k_inv' = [k_inv EXCEPT ![t] = NoInvocation]
    /\ UNCHANGED <<pending_plans, execution_log, day_requests, call, handler_calls, hist,
                   response, val_vars, rl_vars, cls_vars, ex_vars, plan_vars, ctx_vars,
                   list_vars, r_message, k_runs, k_begun>>

NextK ==
    \/ \E t \in Threads, m \in ConcurrentMessages : BeginInvocation(t, m)
    \/ \E t \in Threads : StorePlan(t)
    \/ \E t \in Threads : ReadReply(t)
    \/ \E t \in Threads : MarkApproved(t)
    \/ \E t \in Threads : EnterExecution(t)
    \/ \E t \in Threads : LeaveExecution(t)

SpecK == InitK /\ [][NextK]_vars

(***************************************************************************)
(* SpecD: one reply to a plan that waits for approval, and what follows    *)
(***************************************************************************)
\* the plans _handle_action stores in pending_plans, with what it learnt of them
StoredPlans == {planned \in {Planned[llm, context] :
                                llm \in LlmPlans, context \in GatheredContexts} :
                   planned.outcome = "plan_display"}

InitD ==
    /\ \E planned \in StoredPlans :
          /\ plans = <<planned.plan>>
          /\ hist = <<PlanHistory("u1", planned.verdict)>>
    /\ pending_plans = [u \in Users |-> IF u = "u1" THEN 1 ELSE 0]
    /\ execution_log = <<>>
    /\ day_requests = 0
    /\ call = [u \in Users |-> IdleCall]
    /\ handler_calls = <<<<>>>>
    /\ response = NoResponse
    /\ ValInit
    /\ RlInit
    /\ ClsInit
    /\ ExInit
    /\ p_llm = LlmResponse("llm_error", <<>>)
    /\ p_out = NoOutcome
    /\ g_fetch = <<>>
    /\ g_out = NoOutcome
    /\ ListInit
    /\ r_message \in Replies
    /\ k_inv = [t \in Threads |-> NoInvocation]
    /\ k_runs = <<>>
    /\ k_begun = 0

NextD ==
    \/ HandlePlanResponse("u1", r_message)
    \/ ExecBegin("u1")
    \/ StepBegin("u1")
    \/ StepReturn("u1")
    \/ StepThrow("u1")
    \/ ExecFinish("u1")
    \/ Respond("u1")

SpecD == InitD /\ [][NextD]_vars

(***************************************************************************)
(* SpecR: threads calling wait_if_needed on limiters of every              *)
(* configuration of the bounds                                             *)
(***************************************************************************)
InitR ==
    /\ OrchInit
    /\ ValInit
    /\ ClsInit
    /\ ExInit
    /\ FnInit
    /\ clock = 0
    /\ limiter \in {RateLimiter(m, d) : m \in 1..MaxPerMinute, d \in 1..MaxPerDay}
    /\ lock = "none"
    /\ thread = [t \in Threads |-> IdleThread]
    /\ calls = <<>>

NextR ==
    \/ Tick
    \/ \E t \in Threads :
          \/ Enter(t)
          \/ CheckMinute(t)
          \/ Wake(t)
          \/ CheckDay(t)
          \/ Record(t)

SpecR == InitR /\ [][NextR]_vars

(***************************************************************************)
(* SpecC: one classify call on each message of a bounded set: an action    *)
(* verb or another opening, what follows it directly, and the rest of the  *)
(* message, plus messages in upper case and padded with blanks             *)
(***************************************************************************)
ActionVerbs == {"add", "remove", "delete", "buy", "purchase", "order", "put",
                "update", "change", "set"}
Openings == ActionVerbs \cup {"get", "show", "hi", "what", "i need", ""}
Separators == {"", " ", ",", "\t"}
Tails == {"", "milk", "my shopping list", "what should i make for dinner", "leftover"}

ClassifierMessages ==
    {o \o sep \o tail : o \in Openings, sep \in Separators, tail \in Tails}
        \cup {" Hi ", "THANKS", "Add Milk", "  REMOVE bread from my list ",
              "Delete", "ok", "see you", "get me some eggs", "check my inventory",
              "please add eggs", "any leftovers?", "what's my dietary restrictions",
              "suggest something for lunch", "tell me a joke"}

InitC ==
    /\ OrchInit
    /\ ValInit
    /\ RlInit
    /\ ExInit
    /\ FnInit
    /\ c_message \in ClassifierMessages
    /\ c_result = NoClassification

Classify ==
    /\ c_result = NoClassification
    /\ c_result' = classify(c_message)
    /\ UNCHANGED <<c_message, orch_vars, val_vars, rl_vars, ex_vars, fn_vars>>

NextC == Classify

SpecC == InitC /\ [][NextC]_vars

(***************************************************************************)
(* SpecE: execute_plan called by user u1 on a plan in any status, with a   *)
(* progress_callback of any behaviour and handlers that may return an      *)
(* error text, and rollback_plan called on the plan afterwards             *)
(***************************************************************************)
MaxStepsE == 2      \* longest plan handed to execute_plan in SpecE

PlanStatuses == {"DRAFT", "AWAITING_APPROVAL", "APPROVED", "EXECUTING", "COMPLETED",
                 "FAILED", "CANCELLED"}

S_inventory == PlanStep("createInventoryItems",
                        Params(ListOf(<<NamedItem("rice"), StrItem("salt")>>), Absent),
                        "Put rice and salt in your pantry", 0)
S_leftover == PlanStep("addLeftover", Params(Absent, Absent),
                       "Save the rest of the soup", 0)

ExecutorSteps == {S_add, S_addbad, S_inventory, S_leftover, S_reset, S_rm5}

\* a step as an earlier execute_plan call left it
Executed(step, status) ==
    CASE status = "COMPLETED" ->
              [step EXCEPT !.status = "COMPLETED", !.result = "Added", !.executed_at = TRUE]
      [] status = "FAILED" ->
              [step EXCEPT !.status = "FAILED", !.error = "text", !.executed_at = TRUE]
      [] OTHER -> step

\* the plans handed over: an APPROVED plan has not been executed yet
GivenPlans ==
    {ActionPlan(q, "APPROVED") : q \in SeqsUpTo(ExecutorSteps, MaxStepsE)}
        \cup {ActionPlan(q, status) :
                 q \in SeqsUpTo({Executed(step, st) :
                                    step \in ExecutorSteps,
                                    st \in {"PENDING", "COMPLETED", "FAILED"}}, MaxStepsE),
                 status \in PlanStatuses \ {"APPROVED"}}

NoVerdict ==
    [planning_failed |-> FALSE, raised |-> FALSE, has_errors |-> FALSE,
     requires_approval |-> FALSE]

InitE ==
    /\ pending_plans = [u \in Users |-> 0]
    /\ plans \in {<<plan>> : plan \in GivenPlans}
    /\ execution_log = <<>>
    /\ day_requests = 0
    /\ call = [u \in Users |-> IF u = "u1" THEN Frame("execute", 1, 0, 0) ELSE IdleCall]
    /\ handler_calls = <<<<>>>>
    /\ hist = <<PlanHistory("u1", NoVerdict)>>
    /\ response = NoResponse
    /\ ValInit
    /\ RlInit
    /\ ClsInit
    /\ progress_callback \in SUBSET {"executing", "completed", "failed"}
    /\ handler_texts = HandlerResults
    /\ rollback_calls = <<>>
    /\ rollback_returned = "none"
    /\ FnInit

NextE ==
    \/ ExecBegin("u1")
    \/ StepBegin("u1")
    \/ StepReturn("u1")
    \/ StepThrow("u1")
    \/ StepExcept("u1")
    \/ ExecFinish("u1")
    \/ Rollback("u1")

SpecE == InitE /\ [][NextE]_vars

(***************************************************************************)
(* AgentPlanner.create_plan on its own: one call over an LLM response      *)
(***************************************************************************)
MaxStepsP == 2

JsonKinds == {"json", "fenced_json"}
StepDefects == {"step_not_object", "cost_not_numeric"}

\* what the LLM does with the planning prompt: the call fails, the response
\* has no candidates list or an empty one, its text is not JSON, or it is JSON
\* (bare or inside a code fence) that is an object with a list of steps, or
\* that has one of the defects; a defect of a step is a defect of the last one
PlannerResponses ==
    {LlmResponse(kind, <<>>) :
        kind \in {"llm_error", "candidates_none", "no_candidates", "bad_json"}}
    \cup {[kind |-> kind, steps |-> steps, defect |-> defect] :
            kind \in JsonKinds,
            steps \in SeqsUpTo({S_add, S_buy, S_rm6}, MaxStepsP),
            defect \in {"none", "steps_missing", "not_object"}}
    \cup {[kind |-> kind, steps |-> steps, defect |-> defect] :
            kind \in JsonKinds,
            steps \in SeqsUpTo({S_add, S_buy, S_rm6}, MaxStepsP) \ {<<>>},
            defect \in StepDefects}
    \cup {[kind |-> kind, steps |-> <<>>, defect |-> "steps_null"] : kind \in JsonKinds}

InitP ==
    /\ OrchInit
    /\ ValInit
    /\ RlInit
    /\ ClsInit
    /\ ExInit
    /\ p_llm \in PlannerResponses
    /\ p_out = NoOutcome
    /\ g_fetch = <<>>
    /\ g_out = NoOutcome
    /\ ListInit
    /\ ConvInit

CreatePlan ==
    /\ p_out = NoOutcome
    /\ LET raised == create_plan_raises(p_llm)
       IN  p_out' = [raised |-> raised, returned |-> raised = "none",
                     plan |-> create_plan(p_llm)]
    /\ UNCHANGED <<p_llm, orch_vars, val_vars, rl_vars, cls_vars, ex_vars, ctx_vars,
                   list_vars, conv_vars>>

NextP == CreatePlan

SpecP == InitP /\ [][NextP]_vars

(***************************************************************************)
(* AgentPlanner.gather_context on its own: one call over the outcomes of   *)
(* the four fetches                                                        *)
(***************************************************************************)
\* the fetches in the order gather_context makes them
ContextFields == <<"preferences", "inventory", "leftovers", "shopping_list">>

\* Python values a fetch hands back: None, a dict, a list of rows
NoneValue == [type |-> "None", rows |-> <<>>]
DictValue == [type |-> "dict", rows |-> <<>>]
ListValue(rows) == [type |-> "list", rows |-> rows]

FetchRaised == [raised |-> TRUE, value |-> NoneValue]
FetchReturned(value) == [raised |-> FALSE, value |-> value]

\* the fields of a fresh AgentContext: no preferences, empty lists
ZeroValue(field) == IF field = "preferences" THEN NoneValue ELSE ListValue(<<>>)

\* the line logged after the assignment raises when len() is taken of a value
\* that is no list; preferences are only compared with None
LogRaises(field, value) == field # "preferences" /\ value.type = "None"

\* one try block: the field after it, and whether the block raised (the fetch, or
\* the log line after the assignment)
TryFetch(field, outcome) ==
    [value |-> IF outcome.raised THEN ZeroValue(field) ELSE outcome.value,
     raised |-> outcome.raised \/ LogRaises(field, outcome.value)]

\* variant of gather_context with one try block around the four fetches: the
\* first block that raises ends the gathering
gather_context_single_try(fetch) ==
    LET tried == [k \in 1..4 |-> TryFetch(ContextFields[k], fetch[ContextFields[k]])]
        reached(k) == \A j \in 1..(k - 1) : ~tried[j].raised
        field(k) == IF reached(k) THEN tried[k].value ELSE ZeroValue(ContextFields[k])
    IN  [raised |-> "none", returned |-> TRUE,
         context |-> [preferences |-> field(1), inventory |-> field(2),
                      leftovers |-> field(3), shopping_list |-> field(4),
                      gathered_at |-> TRUE]]

\* gather_context: four try blocks one after the other, each with its own
\* except Exception, then the time stamp
gather_context(fetch) ==
    LET tried == [k \in 1..4 |-> TryFetch(ContextFields[k], fetch[ContextFields[k]])]
    IN  [raised |-> "none", returned |-> TRUE,
         context |-> [preferences |-> tried[1].value, inventory |-> tried[2].value,
                      leftovers |-> tried[3].value, shopping_list |-> tried[4].value,
                      gathered_at |-> TRUE]]

\* how a fetch may end: it raises, or it returns None or a dict (preferences),
\* a list of rows or, from a client that returns no data, None
FetchOutcomes(field) ==
    IF field = "preferences"
    THEN {FetchRaised, FetchReturned(NoneValue), FetchReturned(DictValue)}
    ELSE {FetchRaised, FetchReturned(NoneValue), FetchReturned(ListValue(<<>>)),
          FetchReturned(ListValue(<<DictItem("milk")>>))}

InitG ==
    /\ OrchInit
    /\ ValInit
    /\ RlInit
    /\ ClsInit
    /\ ExInit
    /\ p_llm = LlmResponse("llm_error", <<>>)
    /\ p_out = NoOutcome
    /\ g_fetch \in {fetch \in [{ContextFields[k] : k \in 1..4}
                               -> UNION {FetchOutcomes(ContextFields[k]) : k \in 1..4}] :
                       \A k \in 1..4 :
                           fetch[ContextFields[k]] \in FetchOutcomes(ContextFields[k])}
    /\ g_out = NoOutcome
    /\ ListInit
    /\ ConvInit

GatherContext ==
    /\ g_out = NoOutcome
    /\ g_out' = gather_context(g_fetch)
    /\ UNCHANGED <<g_fetch, orch_vars, val_vars, rl_vars, cls_vars, ex_vars, plan_vars,
                   list_vars, conv_vars>>

NextG == GatherContext

SpecG == InitG /\ [][NextG]_vars

(***************************************************************************)
(* add_shopping_list_items on the shopping_lists row of one user           *)
(***************************************************************************)
MaxAddCalls == 2
MaxItemsPerCall == 2

\* an item dict of the shopping list; keys are the keys it carries
ListItem(name, quantity, unit, keys) ==
    [item |-> name, quantity |-> quantity, unit |-> unit, keys |-> keys]

\* dict.get(key, default)
ItemGet(d, key, default) == IF key \in d.keys THEN d[key] ELSE default

\* variant of normalize that compares names as they are written
normalize_exact(name) == name

normalize(name) == Strip(Lower(name))

\* the entry of the list that the item names, updated: quantities added when the
\* units match whatever their case, quantity and unit replaced otherwise
UpdateExisting(existing, item) ==
    IF Lower(ItemGet(existing, "unit", "")) = Lower(ItemGet(item, "unit", ""))
    THEN [existing EXCEPT !.quantity = ItemGet(existing, "quantity", 0)
                                        + ItemGet(item, "quantity", 1),
                          !.keys = @ \cup {"quantity"}]
    ELSE [existing EXCEPT !.quantity = ItemGet(item, "quantity", 1),
                          !.unit = ItemGet(item, "unit", ""),
                          !.keys = @ \cup {"quantity", "unit"}]

\* one turn of the loop over the new items: merged is current_items and
\* existing_names
MergeItem(merged, item) ==
    LET item_name == normalize(ItemGet(item, "item", ""))
        current_items == merged.current_items
    IN  IF item_name # "" /\ item_name \notin merged.existing_names
        THEN [current_items |-> Append(current_items, item),
              existing_names |-> merged.existing_names \cup {item_name}]
        ELSE IF item_name # ""
        THEN LET same == {i \in 1..Len(current_items) :
                            normalize(ItemGet(current_items[i], "item", "")) = item_name}
             IN  IF same = {} THEN merged
                 ELSE LET first == CHOOSE i \in same : \A j \in same : i <= j
                      IN  [merged EXCEPT !.current_items[first] = UpdateExisting(@, item)]
        ELSE merged

RECURSIVE MergeItems(_, _)
MergeItems(merged, items) ==
    IF items = <<>> THEN merged
    ELSE MergeItems(MergeItem(merged, Head(items)), Tail(items))

\* add_shopping_list_items: read the row, merge the new items into its items,
\* write the row back, or insert one when the user has none
add_shopping_list_items(row, items) ==
    LET current_items == row.items
        existing_names == {normalize(ItemGet(current_items[i], "item", "")) :
                              i \in 1..Len(current_items)}
        merged == MergeItems([current_items |-> current_items,
                              existing_names |-> existing_names], items)
    IN  [id |-> IF row.id # 0 THEN row.id ELSE 1, items |-> merged.current_items]

\* the items a caller may hand over: names that differ in case and blanks only, an
\* empty name, with or without a quantity, units that differ in case only or not
NewItems ==
    {ListItem(name, IF "quantity" \in keys THEN 1 ELSE 0, unit, keys) :
        name \in {"Milk", " milk", "eggs", ""},
        unit \in {"gallon", "Gallon", "box"},
        keys \in {{"item", "quantity", "unit"}, {"item", "unit"}}}

InitS ==
    /\ OrchInit
    /\ ValInit
    /\ RlInit
    /\ ClsInit
    /\ ExInit
    /\ p_llm = LlmResponse("llm_error", <<>>)
    /\ p_out = NoOutcome
    /\ g_fetch = <<>>
    /\ g_out = NoOutcome
    /\ s_row \in {NoRow, [id |-> 1, items |-> <<>>]}
    /\ s_added = <<>>
    /\ s_calls = 0
    /\ ConvInit

AddItems ==
    /\ s_calls < MaxAddCalls
    /\ \E items \in SeqsUpTo(NewItems, MaxItemsPerCall) :
        /\ s_row' = add_shopping_list_items(s_row, items)
        /\ s_added' = items
    /\ s_calls' = s_calls + 1
    /\ UNCHANGED <<orch_vars, val_vars, rl_vars, cls_vars, ex_vars, plan_vars, ctx_vars,
                   conv_vars>>

NextS == AddItems

SpecS == InitS /\ [][NextS]_vars

(***************************************************************************)
(* Properties of validate_plan (checked under SpecV)                       *)
(***************************************************************************)
Validated == v_out # NoResult

\* the outputs of the two checks that can produce errors or request approval
AnyCheckError ==
    _check_budget(v_plan, v_ctx).errors # <<>> \/ _check_safety(v_plan).errors # <<>>

AnyCheckApproval ==
    \/ _check_budget(v_plan, v_ctx).requires_approval
    \/ _check_safety(v_plan).requires_approval

\* C9: whenever validate_plan returns, the verdict follows the merged check outputs:
\* an error gives is_valid = false and status FAILED even when approval was also
\* requested; otherwise an approval request gives is_valid = true, status
\* AWAITING_APPROVAL, requires_approval = true and the reason stored on the plan;
\* otherwise is_valid = true and status APPROVED.
C9_VerdictMapping ==
    (Validated /\ ~v_out.raised) =>
        IF AnyCheckError
        THEN ~v_out.is_valid /\ v_plan.status = "FAILED"
        ELSE IF AnyCheckApproval
        THEN /\ v_out.is_valid
             /\ v_plan.status = "AWAITING_APPROVAL"
             /\ v_plan.requires_approval
             /\ v_plan.approval_reason # <<>>
             /\ v_plan.approval_reason = v_out.approval_reason
        ELSE v_out.is_valid /\ v_plan.status = "APPROVED"

\* a validated plan for which a check produced an error while approval was requested too
C9_Witness ==
    /\ Validated /\ ~v_out.raised
    /\ AnyCheckError /\ AnyCheckApproval
    /\ v_plan.status = "FAILED"

\* the premises of C10, read off the plan itself
CostFree == total_estimated_cost(v_plan) = 0

NoRemovalActionName ==
    \A i \in 1..Len(v_plan.steps) :
        /\ ~Contains(Lower(v_plan.steps[i].action), "delete")
        /\ ~Contains(Lower(v_plan.steps[i].action), "remove")

NoKeywordInDescriptions ==
    \A i \in 1..Len(v_plan.steps), k \in 1..Len(require_approval_keywords) :
        ~Contains(Lower(v_plan.steps[i].description), require_approval_keywords[k])

CarriesSixOrMore(value) == value.kind = "list" /\ Len(value.val) >= 6

RemovesSixOrMore(step) ==
    /\ Contains(Lower(step.action), "delete") \/ Contains(Lower(step.action), "remove")
    /\ CarriesSixOrMore(step.parameters.items)
           \/ CarriesSixOrMore(step.parameters.item_names)

\* C11 as stated: every plan with a delete/remove step whose item list (items or
\* item_names) has six or more entries gets requires_approval = true from a
\* validate_plan call that returns, whichever key carries the list and whatever
\* other keys are present.
C11_AsStated ==
    (Validated /\ ~v_out.raised
        /\ \E i \in 1..Len(v_plan.steps) : RemovesSixOrMore(v_plan.steps[i])) =>
        v_out.requires_approval

(***************************************************************************)
(* Properties of process_message and execute_plan (checked under Spec)     *)
(***************************************************************************)
PlanIds == DOMAIN plans

Terminal == {"COMPLETED", "FAILED"}

\* execute_plan has returned the plan to the call that runs it
Returned(p) == \E u \in Users : call[u].pc = "respond" /\ call[u].plan = p

\* a call of the user is working on the plan
InFlight(u, p) == call[u].pc # "idle" /\ call[u].plan = p

AllStepsPending(plan) == \A i \in 1..Len(plan.steps) : plan.steps[i].status = "PENDING"

\* every step of the plan had its handler invoked and the invocation ended
AllStepsAttempted(p) ==
    /\ Len(handler_calls[p]) = Len(plans[p].steps)
    /\ \A k \in 1..Len(handler_calls[p]) : handler_calls[p][k].outcome # "running"

\* the words a reply contains, read off the message itself
HasApprovalWord == [m \in Messages |-> AnyWordIn(approval_words, Strip(Lower(m)))]
HasRejectionWord == [m \in Messages |-> AnyWordIn(rejection_words, Strip(Lower(m)))]

\* C1: the handler invocations made for a plan are those of steps 1, 2, ... in that
\* order, one per step; an invocation that returned leaves its step COMPLETED and one
\* that threw leaves it FAILED; and when execute_plan returns, every step has been
\* attempted, whichever of them threw.
C1_EveryStepOnceInOrder ==
    \A p \in PlanIds :
        /\ Len(handler_calls[p]) <= Len(plans[p].steps)
        /\ \A k \in 1..Len(handler_calls[p]) :
              /\ handler_calls[p][k].step = k
              /\ handler_calls[p][k].outcome = "returned"
                    => plans[p].steps[k].status = "COMPLETED"
              /\ handler_calls[p][k].outcome = "threw"
                    => plans[p].steps[k].status = "FAILED"
        /\ Returned(p) => AllStepsAttempted(p)

\* execute_plan has returned a two-step plan whose first handler threw and whose
\* second handler returned
C1_Witness ==
    \E p \in PlanIds :
        /\ Returned(p)
        /\ Len(plans[p].steps) = 2
        /\ Len(handler_calls[p]) = 2
        /\ handler_calls[p][1].outcome = "threw"
        /\ handler_calls[p][2].outcome = "returned"

\* C2: when execute_plan returns a plan with at least one step, the plan is FAILED
\* if and only if none of its steps is COMPLETED and is COMPLETED otherwise (partial
\* success included), and completed_at is stamped.
C2_FinalStatus ==
    \A p \in PlanIds :
        (Returned(p) /\ plans[p].steps # <<>>) =>
            /\ plans[p].status \in Terminal
            /\ plans[p].status = "FAILED" <=> get_completed_steps(plans[p]) = <<>>
            /\ plans[p].completed_at

\* execute_plan has returned a plan with a failed and a completed step (partial success)
C2_Witness ==
    \E p \in PlanIds :
        /\ Returned(p)
        /\ get_failed_steps(plans[p]) # <<>>
        /\ get_completed_steps(plans[p]) # <<>>
        /\ plans[p].status = "COMPLETED"
        /\ plans[p].completed_at

\* validation asked for approval of the plan and found no error
Gated(p) ==
    /\ hist[p].verdict.requires_approval
    /\ ~hist[p].verdict.has_errors
    /\ ~hist[p].verdict.raised

\* C3: a plan whose validation required approval has no handler invoked unless its
\* owner has sent a reply read as approval; as long as no such reply has come the
\* plan is AWAITING_APPROVAL with every step PENDING, and as long as the owner has
\* not decided on it at all it is the owner's entry in pending_plans.
C3_ApprovalGate ==
    \A p \in PlanIds :
        /\ hist[p].verdict.requires_approval =>
              (handler_calls[p] # <<>> => hist[p].approved_by = hist[p].owner)
        /\ (Gated(p) /\ hist[p].approved_by = "") =>
              /\ plans[p].status = "AWAITING_APPROVAL"
              /\ AllStepsPending(plans[p])
              /\ handler_calls[p] = <<>>
        /\ (Gated(p) /\ hist[p].approved_by = "" /\ hist[p].rejected_by = "") =>
              pending_plans[hist[p].owner] = p

\* one gated plan runs after its owner's approval while another user's gated plan
\* is still held
C3_Witness ==
    \E p, q \in PlanIds :
        /\ Gated(p) /\ hist[p].approved_by = hist[p].owner /\ handler_calls[p] # <<>>
        /\ Gated(q) /\ hist[q].approved_by = "" /\ hist[q].owner # hist[p].owner
        /\ pending_plans[hist[q].owner] = q

\* C4: a reply containing an approval word, sent by a user with a pending plan,
\* removes the user's entry and starts the execution of that plan; and the call that
\* runs an approved plan returns with every step attempted, the plan COMPLETED or
\* FAILED, and the user without a pending entry.
C4_ApprovalExecutes ==
    [][\A u \in Users :
          /\ \A m \in Messages :
                (HasApprovalWord[m] /\ HandlePlanResponse(u, m)) =>
                    /\ pending_plans'[u] = 0
                    /\ call'[u].pc # "idle" /\ call'[u].plan = pending_plans[u]
                    /\ hist'[pending_plans[u]].approved_by = u
          /\ (call[u].pc # "idle" /\ call'[u].pc = "idle"
                /\ hist[call[u].plan].approved_by = u) =>
                    /\ plans'[call[u].plan].status \in Terminal
                    /\ \E p \in PlanIds : p = call[u].plan /\ AllStepsAttempted(p)'
                    /\ pending_plans'[u] = 0
                    /\ response'.user = u /\ response'.plan = call[u].plan]_vars

\* the call that ran an approved two-step plan has returned: plan COMPLETED, user idle
C4_Witness ==
    \E p \in PlanIds :
        /\ hist[p].approved_by = hist[p].owner
        /\ response.user = hist[p].owner /\ response.plan = p
        /\ response.text = "completion"
        /\ call[hist[p].owner].pc = "idle"
        /\ pending_plans[hist[p].owner] = 0
        /\ plans[p].status = "COMPLETED"
        /\ Len(plans[p].steps) = 2

\* C5: a reply containing a rejection word and no approval word, sent by a user with
\* a pending plan, removes the user's entry and returns; and a rejected plan never has
\* a handler invoked, keeps every step PENDING and is in nobody's pending entry.
C5_RejectionNeverExecutes ==
    [][/\ \A u \in Users, m \in Messages :
             (HasRejectionWord[m] /\ ~HasApprovalWord[m] /\ HandlePlanResponse(u, m)) =>
                 /\ pending_plans'[u] = 0
                 /\ call'[u].pc = "idle"
                 /\ hist'[pending_plans[u]].rejected_by = u
                 /\ hist'[pending_plans[u]].approved_by = ""
       /\ \A p \in DOMAIN plans' :
             hist'[p].rejected_by # "" =>
                 /\ handler_calls'[p] = <<>>
                 /\ AllStepsPending(plans'[p])
                 /\ \A u \in Users : pending_plans'[u] # p /\ ~InFlight(u, p)']_vars

\* a user rejected a plan and has since had another plan executed
C5_Witness ==
    \E p, q \in PlanIds :
        /\ hist[p].rejected_by = hist[p].owner
        /\ hist[q].owner = hist[p].owner
        /\ q > p
        /\ AllStepsAttempted(q) /\ plans[q].status \in Terminal
        /\ handler_calls[p] = <<>>

\* C6: a reply containing neither an approval nor a rejection word, sent by a user
\* with a pending plan, leaves pending_plans, every plan, the handler invocations,
\* the execution log and the rate limiter as they were, makes no LLM call, and
\* returns the pending plan with awaiting_approval set.
C6_UnclearReplyChangesNothing ==
    [][\A u \in Users, m \in Messages :
          (~HasApprovalWord[m] /\ ~HasRejectionWord[m] /\ HandlePlanResponse(u, m)) =>
              /\ UNCHANGED <<pending_plans, plans, handler_calls, execution_log,
                             day_requests, call, hist>>
              /\ response'.user = u
              /\ response'.plan = pending_plans[u]
              /\ response'.awaiting_approval
              /\ response'.llm_calls = 0]_vars

\* a user was re-prompted for a plan that is still pending
C6_Witness ==
    /\ response.text = "reprompt"
    /\ response.awaiting_approval
    /\ response.user \in Users
    /\ pending_plans[response.user] = response.plan
    /\ plans[response.plan].status = "AWAITING_APPROVAL"

\* C7: a plan whose planning failed (status FAILED or no steps) or whose validation
\* produced errors never has a handler invoked, is never an entry of pending_plans
\* and is never handed to execute_plan; and the user who got the corresponding
\* answer has no pending entry.
C7_FailedPlansNeverRun ==
    /\ \A p \in PlanIds :
          (hist[p].verdict.planning_failed \/ hist[p].verdict.has_errors) =>
              /\ handler_calls[p] = <<>>
              /\ AllStepsPending(plans[p])
              /\ \A u \in Users : pending_plans[u] # p /\ ~InFlight(u, p)
    /\ \A u \in Users :
          (response.user = u /\ response.text \in {"clarify", "validation_errors"}
              /\ call[u].pc = "idle") => pending_plans[u] = 0

\* one plan failed in planning, another was refused by validation with errors
C7_Witness ==
    \E p, q \in PlanIds :
        /\ hist[p].verdict.planning_failed
        /\ hist[q].verdict.has_errors /\ plans[q].status = "FAILED"
        /\ response.text = "validation_errors" /\ response.plan = q
        /\ pending_plans[response.user] = 0

\* validation found neither an error nor a need for approval
Cleared(p) ==
    /\ ~hist[p].verdict.planning_failed
    /\ ~hist[p].verdict.raised
    /\ ~hist[p].verdict.has_errors
    /\ ~hist[p].verdict.requires_approval

\* C8: a plan with at least one step whose validation yields no errors and requires
\* no approval is never an entry of pending_plans; it is run by the call that
\* created it, which returns with every step attempted, the plan COMPLETED or FAILED
\* and the user without a pending entry.
C8_ValidPlansRunAtOnce ==
    \A p \in PlanIds :
        Cleared(p) =>
            LET owner == hist[p].owner
            IN  /\ plans[p].steps # <<>>
                /\ \A u \in Users : pending_plans[u] # p
                /\ \/ InFlight(owner, p) /\ pending_plans[owner] = 0
                   \/ plans[p].status \in Terminal /\ AllStepsAttempted(p)
                /\ (response.plan = p /\ response.text = "completion") =>
                      /\ response.user = owner
                      /\ plans[p].status \in Terminal
                      /\ call[owner].pc = "idle" => pending_plans[owner] = 0

\* the call that created a cleared two-step plan has returned it COMPLETED
C8_Witness ==
    \E p \in PlanIds :
        /\ Cleared(p)
        /\ Len(plans[p].steps) = 2
        /\ response.plan = p /\ response.text = "completion"
        /\ plans[p].status = "COMPLETED"
        /\ call[hist[p].owner].pc = "idle"
        /\ hist[p].approved_by = ""

(***************************************************************************)
(* Properties of RateLimiter.wait_if_needed (checked under SpecR)          *)
(***************************************************************************)
\* the calls that recorded a timestamp before call k began
AdmittedBefore(k) == {j \in 1..(k - 1) : calls[j].outcome = "returned"}

\* those whose timestamp was still inside the minute (day) window when call k first
\* read the clock; a timestamp exactly one window old counts as inside, as it does
\* for the limiter's own clean-up and usage statistics
InMinuteWindow(k) ==
    {j \in AdmittedBefore(k) : calls[j].stamp >= calls[k].entered - OneMinute}

InDayWindow(k) ==
    {j \in AdmittedBefore(k) : calls[j].stamp >= calls[k].entered - OneDay}

OldestInMinuteWindow(k) ==
    CHOOSE s \in {calls[j].stamp : j \in InMinuteWindow(k)} :
        \A j \in InMinuteWindow(k) : s <= calls[j].stamp

\* C12: a call that finds fewer than max_requests_per_minute timestamps inside the
\* minute window (as the first max_requests_per_minute calls on an empty limiter do)
\* returns a wait of 0; a call that finds max_requests_per_minute of them or more
\* waits exactly (oldest timestamp in the window + one minute - now) and, the day
\* quota permitting, is then admitted, with a timestamp not before the end of the wait.
C12_MinuteWindowWait ==
    \A k \in 1..Len(calls) :
        LET c == calls[k]
            day_free == Cardinality(InDayWindow(k)) < limiter.max_requests_per_day
        IN  IF Cardinality(InMinuteWindow(k)) < limiter.max_requests_per_minute
            THEN /\ c.wait_time = 0
                 /\ day_free => c.outcome = "returned"
            ELSE /\ c.wait_time = OldestInMinuteWindow(k) + OneMinute - c.entered
                 /\ day_free => /\ c.outcome = "returned"
                                /\ c.stamp >= c.entered + c.wait_time

\* max_requests_per_minute calls admitted at once on an empty limiter without a wait,
\* and a further call that waited and was then admitted
C12_Witness ==
    LET n == limiter.max_requests_per_minute
    IN  /\ n = MaxPerMinute
        /\ Len(calls) > n
        /\ \A k \in 1..n : /\ calls[k].outcome = "returned"
                            /\ calls[k].wait_time = 0
                            /\ calls[k].stamp = calls[1].stamp
        /\ calls[n + 1].entered < calls[1].stamp + OneMinute
        /\ calls[n + 1].wait_time > 0
        /\ calls[n + 1].outcome = "returned"

\* C13: a call that begins when max_requests_per_day timestamps or more lie inside the
\* day window raises RateLimitExceededError, having waited at most one minute window;
\* no call ever sleeps longer than one minute window, so none waits for the day
\* window to free up.
C13_DayQuotaRaises ==
    /\ \A k \in 1..Len(calls) :
           Cardinality(InDayWindow(k)) >= limiter.max_requests_per_day =>
               /\ calls[k].outcome = "raised"
               /\ calls[k].wait_time <= OneMinute
    /\ \A t \in Threads :
           thread[t].pc = "sleeping" =>
               /\ thread[t].wait_time <= OneMinute
               /\ thread[t].sleep_until - clock <= OneMinute

\* a call made with the day quota used up that first slept for the minute window and
\* then raised
C13_Witness ==
    \E k \in 1..Len(calls) :
        /\ Cardinality(InDayWindow(k)) >= limiter.max_requests_per_day
        /\ calls[k].outcome = "raised"
        /\ calls[k].wait_time > 0

\* the admitted calls whose timestamps lie within the last `window` ticks, the instant
\* exactly one window ago left out
AdmittedWithin(window) ==
    {k \in 1..Len(calls) : /\ calls[k].outcome = "returned"
                           /\ calls[k].stamp > clock - window
                           /\ calls[k].stamp <= clock}

\* C14 as stated: at every moment at most max_requests_per_minute admitted calls have
\* timestamps within the last minute and at most max_requests_per_day within the last
\* day, also when a call arrives exactly one minute after the oldest recorded timestamp.
C14_AsStated ==
    /\ Cardinality(AdmittedWithin(OneMinute)) <= limiter.max_requests_per_minute
    /\ Cardinality(AdmittedWithin(OneDay)) <= limiter.max_requests_per_day

\* the timestamps recorded by the admitted calls, in the order of admission
RECURSIVE StampsOf(_)
StampsOf(log) ==
    IF log = <<>> THEN <<>>
    ELSE (IF Head(log).outcome = "returned" THEN <<Head(log).stamp>> ELSE <<>>)
         \o StampsOf(Tail(log))

\* queue holds the last Len(queue) recorded timestamps, one per admitted call, and the
\* ones it no longer holds have left the window
KeepsEveryStamp(queue, window) ==
    LET stamps == StampsOf(calls)
        dropped == Len(stamps) - Len(queue)
    IN  /\ dropped >= 0
        /\ queue = SubSeq(stamps, dropped + 1, Len(stamps))
        /\ \A i \in 1..dropped : stamps[i] < clock - window

\* C15: with several threads calling wait_if_needed on one limiter, at most one call
\* is between taking the lock and leaving it, and it holds the lock; the deques are
\* as that call last left them (no other call has touched them in between); each
\* deque holds exactly one timestamp per admitted call whose timestamp has not left
\* the window, in the order of admission; and the day deque never exceeds
\* max_requests_per_day.
C15_NoInterleaving ==
    /\ \A t1, t2 \in Threads :
           (thread[t1].pc # "idle" /\ thread[t2].pc # "idle") => t1 = t2
    /\ \A t \in Threads :
           thread[t].pc # "idle" => (lock = t /\ thread[t].seen = Queues(limiter))
    /\ KeepsEveryStamp(limiter.minute_requests, OneMinute)
    /\ KeepsEveryStamp(limiter.day_requests, OneDay)
    /\ Len(limiter.day_requests) <= limiter.max_requests_per_day

\* both threads have had calls admitted, and one of them is asleep inside
\* wait_if_needed, holding the lock
C15_Witness ==
    \E t1, t2 \in Threads :
        /\ t1 # t2
        /\ thread[t1].pc = "sleeping"
        /\ lock = t1
        /\ \E j, k \in 1..Len(calls) :
               /\ calls[j].thread = t1 /\ calls[j].outcome = "returned"
               /\ calls[k].thread = t2 /\ calls[k].outcome = "returned"

(***************************************************************************)
(* Properties of process_message: errors and routing (checked under Spec)  *)
(***************************************************************************)
\* C16 as stated: whenever a wait_if_needed call made during process_message raises
\* RateLimitExceededError (before planning, before question answering or before the
\* completion summary), the text returned is the rate-limit message.
C16_AsStated ==
    response.rate_limit_error => response.text = "rate_limited"

\* the texts process_message returns, by kind
ReturnedTexts ==
    {"greeting", "query", "question", "question_fallback", "clarify",
     "validation_errors", "plan_display", "cancelled", "reprompt", "completion",
     "rate_limited", "error"}

\* C17: process_message never raises to its caller: every step that ends an
\* invocation, whatever the message, the state of the user and the failures of the
\* data store, the LLM, the step handlers, the validator and the rate limiter, hands
\* the caller a mapping with a text; the other steps leave the invocation under way.
C17_NeverRaises ==
    [][IF \E u \in Users : call'[u].pc # "idle" /\ call'[u] # call[u]
       THEN response' = NoResponse
       ELSE /\ response'.user \in Users
            /\ response'.text \in ReturnedTexts]_vars

\* the generic handler at work: an exception other than the rate-limit error left a
\* handler and the caller got the apology
C17_Witness ==
    /\ response.text = "error"
    /\ response.user \in Users
    /\ call[response.user].pc = "idle"

(***************************************************************************)
(* Properties of RequestClassifier.classify (checked under SpecC)          *)
(***************************************************************************)
MatchesGreeting(s) == \E n \in 1..Len(GREETING_PATTERNS) : ReMatch(GREETING_PATTERNS[n], s)

MatchesAction(s) ==
    \/ \E n \in 1..Len(ACTION_PATTERNS_ANCHORED) : ReMatch(ACTION_PATTERNS_ANCHORED[n], s)
    \/ \E n \in 1..Len(ACTION_PATTERNS) : ReSearch(ACTION_PATTERNS[n], s)

MatchesQuestion(s) == \E n \in 1..Len(QUESTION_PATTERNS) : ReSearch(QUESTION_PATTERNS[n], s)

MatchesQuery(s) ==
    \E e \in DOMAIN QUERY_PATTERNS :
        \E n \in 1..Len(QUERY_PATTERNS[e]) : ReSearch(QUERY_PATTERNS[e][n], s)

\* the first tier, in the order greeting > action > question > query, with a match
FirstTier(s) ==
    IF MatchesGreeting(s) THEN "GREETING"
    ELSE IF MatchesAction(s) THEN "ACTION"
    ELSE IF MatchesQuestion(s) THEN "QUESTION"
    ELSE IF MatchesQuery(s) THEN "QUERY"
    ELSE "UNKNOWN"

StartsWith(s, w) == Len(s) >= Len(w) /\ SubSeq(s, 1, Len(w)) = w

IsLetter(c) ==
    c \in {"a", "b", "c", "d", "e", "f", "g", "h", "i", "j", "k", "l", "m", "n", "o",
           "p", "q", "r", "s", "t", "u", "v", "w", "x", "y", "z"}

\* the first word of s is one of the action verbs
BeginsWithActionVerb(s) ==
    \E v \in ActionVerbs :
        /\ StartsWith(s, v)
        /\ Len(s) > Len(v) => ~IsLetter(SubSeq(s, Len(v) + 1, Len(v) + 1))

\* s opens with one of the action verbs and a whitespace character after it
BeginsWithActionVerbAndSpace(s) ==
    \E v \in ActionVerbs :
        /\ StartsWith(s, v)
        /\ Len(s) > Len(v)
        /\ IsReSpace(SubSeq(s, Len(v) + 1, Len(v) + 1))

Classified == c_result # NoClassification

\* C18 as stated: classify returns the first tier, in the order greeting > action >
\* question > query > unknown, whose patterns match the lowercased, trimmed message
\* (UNKNOWN exactly when none matches), and every message beginning with an action
\* verb is classified ACTION.
C18_AsStated ==
    Classified =>
        /\ c_result.request_type = FirstTier(Strip(Lower(c_message)))
        /\ BeginsWithActionVerb(Strip(Lower(c_message))) => c_result.request_type = "ACTION"

\* C18, amended: classify returns the first tier, in the order greeting > action >
\* question > query > unknown, whose patterns match the lowercased, trimmed message
\* (UNKNOWN exactly when none matches), and every message whose lowercased, trimmed
\* text begins with an action verb followed by a whitespace character is classified
\* ACTION, even when it also matches a query or a question pattern.
C18_TierOrder ==
    Classified =>
        /\ c_result.request_type = FirstTier(Strip(Lower(c_message)))
        /\ (c_result.request_type = "UNKNOWN") <=>
               ~(\/ MatchesGreeting(Strip(Lower(c_message)))
                 \/ MatchesAction(Strip(Lower(c_message)))
                 \/ MatchesQuestion(Strip(Lower(c_message)))
                 \/ MatchesQuery(Strip(Lower(c_message))))
        /\ BeginsWithActionVerbAndSpace(Strip(Lower(c_message)))
               => c_result.request_type = "ACTION"

\* a message that opens with an action verb and a blank and also matches a query
\* pattern has been classified, as ACTION
C18_Witness ==
    /\ Classified
    /\ BeginsWithActionVerbAndSpace(Strip(Lower(c_message)))
    /\ MatchesQuery(Strip(Lower(c_message)))
    /\ c_result.request_type = "ACTION"

\* (requires_context, requires_llm) by request type
FlagsOf(request_type) ==
    CASE request_type = "GREETING" -> <<FALSE, FALSE>>
      [] request_type = "ACTION" -> <<TRUE, TRUE>>
      [] request_type = "QUESTION" -> <<TRUE, TRUE>>
      [] request_type = "QUERY" -> <<TRUE, FALSE>>
      [] request_type = "UNKNOWN" -> <<TRUE, TRUE>>

\* C19: in every ClassifiedRequest that classify returns, requires_context and
\* requires_llm are determined by request_type (GREETING: false, false; ACTION: true,
\* true; QUESTION: true, true; QUERY: true, false; UNKNOWN: true, true), and
\* target_entity is set exactly when the type is QUERY.
C19_FlagsByType ==
    Classified =>
        /\ c_result.request_type \in {"GREETING", "ACTION", "QUESTION", "QUERY", "UNKNOWN"}
        /\ <<c_result.requires_context, c_result.requires_llm>>
               = FlagsOf(c_result.request_type)
        /\ (c_result.target_entity # "") <=> (c_result.request_type = "QUERY")
        /\ c_result.request_type = "QUERY"
               => c_result.target_entity
                      \in {"shopping_list", "inventory", "leftovers", "preferences"}

\* a message has been classified QUERY, with its entity, context and no LLM
C19_Witness ==
    /\ Classified
    /\ c_result.request_type = "QUERY"
    /\ c_result.target_entity = "inventory"
    /\ c_result.requires_context
    /\ ~c_result.requires_llm

(***************************************************************************)
(* Properties of the GREETING and QUERY paths (checked under Spec)         *)
(***************************************************************************)
\* C20: a process_message call that answers a GREETING or a QUERY of a user with no
\* pending plan creates, validates and executes no plan (no ActionPlan object, no
\* planning or validation record, no execution-log entry and no handler call is
\* added, and no invocation is left under way), makes no LLM call, takes no
\* rate-limiter slot and leaves pending_plans as it was; answering a GREETING makes
\* no data-store call either, while a QUERY makes only the reads of gather_context.
C20_ReadOnlyPaths ==
    [][response'.text \in {"greeting", "query"} =>
          /\ pending_plans[response'.user] = 0
          /\ pending_plans' = pending_plans
          /\ plans' = plans
          /\ hist' = hist
          /\ execution_log' = execution_log
          /\ handler_calls' = handler_calls
          /\ call' = call
          /\ day_requests' = day_requests
          /\ response'.llm_calls = 0
          /\ ~response'.rate_limit_error
          /\ response'.plan = 0
          /\ response'.text = "greeting" => response'.persistence_calls = {}
          /\ response'.text = "query" => response'.persistence_calls = ContextReads]_vars

\* a QUERY has been answered from the data store for a user without a pending plan,
\* while another user's plan awaits approval and the daily quota is in use
C20_Witness ==
    /\ response.text = "query"
    /\ response.user \in Users
    /\ pending_plans[response.user] = 0
    /\ response.persistence_calls = ContextReads
    /\ response.llm_calls = 0
    /\ \E u \in Users : pending_plans[u] # 0
    /\ day_requests > 0

(***************************************************************************)
(* Properties of AgentExecutor (checked under SpecE)                       *)
(***************************************************************************)
\* C21: execute_plan called on a plan whose status is not APPROVED returns (it does
\* not raise) with the plan, its status, its steps' statuses and results as they
\* were, without a handler call and without an execution-log entry.
C21_RefusesUnapproved ==
    [][\A u \in Users :
          (/\ call[u].pc = "execute"
           /\ call'[u] # call[u]
           /\ plans[call[u].plan].status # "APPROVED")
          => /\ call'[u].pc = "respond"
             /\ plans' = plans
             /\ handler_calls' = handler_calls
             /\ execution_log' = execution_log]_vars

\* execute_plan has returned a DRAFT plan with a step to run: nothing was run
C21_Witness ==
    /\ call["u1"].pc = "respond"
    /\ plans[1].status = "DRAFT"
    /\ \E i \in 1..Len(plans[1].steps) : plans[1].steps[i].status = "PENDING"
    /\ handler_calls[1] = <<>>
    /\ execution_log = <<>>

\* the moves of a step's status that the life cycle allows
StepMoves ==
    {<<"PENDING", "EXECUTING">>, <<"EXECUTING", "COMPLETED">>, <<"EXECUTING", "FAILED">>}

\* C22 as stated: every change of a PlanStep's status is one of PENDING -> EXECUTING,
\* EXECUTING -> COMPLETED and EXECUTING -> FAILED (so a step never leaves COMPLETED
\* or FAILED and never skips EXECUTING), whatever the handlers and the
\* progress_callback do, a callback that throws included.
C22_AsStated ==
    [][\A p \in 1..Len(plans) : \A i \in 1..Len(plans[p].steps) :
          plans'[p].steps[i].status # plans[p].steps[i].status
          => <<plans[p].steps[i].status, plans'[p].steps[i].status>> \in StepMoves]_vars

\* the text a handler makes of a failed data-store call
IsErrorText(result) == StartsWith(result, "Failed to")

\* C26 as stated: a step whose handler returned an error text ends FAILED, like a
\* step whose handler threw.
C26_AsStated ==
    \A p \in 1..Len(plans) : \A i \in 1..Len(plans[p].steps) :
        (/\ IsErrorText(plans[p].steps[i].result)
         /\ plans[p].steps[i].status # "EXECUTING")
        => plans[p].steps[i].status = "FAILED"

PlanMoves ==
    {<<"DRAFT", "FAILED">>, <<"DRAFT", "AWAITING_APPROVAL">>, <<"DRAFT", "APPROVED">>,
     <<"AWAITING_APPROVAL", "APPROVED">>, <<"AWAITING_APPROVAL", "CANCELLED">>,
     <<"APPROVED", "EXECUTING">>, <<"EXECUTING", "COMPLETED">>,
     <<"EXECUTING", "FAILED">>}

\* C23: over any sequence of process_message calls, every change of an ActionPlan's
\* status is a forward move of the state machine; in particular no plan leaves
\* COMPLETED, FAILED or CANCELLED, and a plan leaves EXECUTING only for COMPLETED or
\* FAILED.
C23_StatusMovesForward ==
    [][\A p \in 1..Len(plans) :
          /\ p <= Len(plans')
          /\ plans'[p].status # plans[p].status
                 => <<plans[p].status, plans'[p].status>> \in PlanMoves
          /\ plans[p].status \in {"COMPLETED", "FAILED", "CANCELLED"}
                 => plans'[p].status = plans[p].status
          /\ plans[p].status = "EXECUTING"
                 => plans'[p].status \in {"EXECUTING", "COMPLETED", "FAILED"}]_vars

\* one plan has gone all the way from AWAITING_APPROVAL to FAILED by execution,
\* and a later message of its owner has produced another plan
C23_Witness ==
    \E p, q \in 1..Len(plans) :
        /\ p < q
        /\ hist[p].approved_by # ""
        /\ plans[p].status = "FAILED"
        /\ handler_calls[p] # <<>>
        /\ hist[q].owner = hist[p].owner
        /\ plans[q].status = "COMPLETED"

\* C24 as stated: when a user whose plan is pending sends an ACTION message, a new
\* plan is created for that message and put in the user's pending_plans entry in
\* place of the pending one.
C24_AsStated ==
    [][\A u \in Users, m \in Messages :
          (/\ pending_plans[u] # 0
           /\ RequestTypeOf[m] = "ACTION"
           /\ HandlePlanResponse(u, m))
          => /\ Len(plans') = Len(plans) + 1
             /\ pending_plans'[u] = Len(plans')]_vars

\* C25 as stated: a plan its user has rejected has the status CANCELLED.
C25_AsStated ==
    \A p \in 1..Len(plans) :
        hist[p].rejected_by # "" => plans[p].status = "CANCELLED"

(***************************************************************************)
(* Properties of AgentPlanner.create_plan (checked under SpecP)            *)
(***************************************************************************)
PlanCreated == p_out # NoOutcome

\* the response is a JSON object whose steps value is a list of step objects with
\* numeric costs
WellFormed(llm) == llm.kind \in {"json", "fenced_json"} /\ llm.defect = "none"

\* C27 as stated: create_plan never raises, for every LLM outcome it returns an
\* ActionPlan, and whenever the response cannot be turned into steps (it is not a
\* JSON object with a list of well-formed steps) the plan returned has no step and
\* status FAILED.
C27_AsStated ==
    PlanCreated =>
        /\ p_out.returned
        /\ ~WellFormed(p_llm) => p_out.plan.steps = <<>> /\ p_out.plan.status = "FAILED"

\* the LLM call, the walk over the candidates or the parse of the text raises
ParseFails(llm) ==
    \/ llm.kind \in {"llm_error", "candidates_none", "no_candidates", "bad_json"}
    \/ llm.defect \in {"not_object", "steps_null", "step_not_object", "cost_not_numeric"}

\* C27: create_plan never raises: for every LLM outcome it returns an ActionPlan;
\* whenever the LLM call or the parse of its response raises, the plan returned has
\* no step and status FAILED; a JSON object without a steps key gives a plan without
\* steps in status DRAFT, and a well-formed response a DRAFT plan of its steps.
C27_NeverRaises ==
    PlanCreated =>
        /\ p_out.returned /\ p_out.raised = "none"
        /\ ParseFails(p_llm) => p_out.plan.steps = <<>> /\ p_out.plan.status = "FAILED"
        /\ p_llm.kind \in {"json", "fenced_json"} /\ p_llm.defect = "steps_missing"
            => p_out.plan.steps = <<>> /\ p_out.plan.status = "DRAFT"
        /\ WellFormed(p_llm)
            => p_out.plan.steps = p_llm.steps /\ p_out.plan.status = "DRAFT"

\* a response whose second step has a cost that is no number came back as a FAILED
\* plan without steps
C27_Witness ==
    /\ PlanCreated
    /\ p_out.returned
    /\ p_llm.defect = "cost_not_numeric"
    /\ Len(p_llm.steps) = 2
    /\ p_out.plan.steps = <<>>
    /\ p_out.plan.status = "FAILED"

(***************************************************************************)
(* Properties of AgentPlanner.gather_context (checked under SpecG)         *)
(***************************************************************************)
ContextGathered == g_out # NoOutcome

\* C28: gather_context never raises and isolates fetch failures: for every subset
\* of the four fetches that fail, the failed fields hold their zero value (absent
\* preferences, an empty list), every other field holds exactly what its fetch
\* returned, and gathered_at is set.
C28_IsolatesFailures ==
    ContextGathered =>
        /\ g_out.returned /\ g_out.raised = "none"
        /\ g_out.context.gathered_at
        /\ \A field \in {"inventory", "leftovers", "shopping_list"} :
              g_out.context[field] = IF g_fetch[field].raised
                                     THEN [type |-> "list", rows |-> <<>>]
                                     ELSE g_fetch[field].value
        /\ g_out.context.preferences = IF g_fetch.preferences.raised
                                       THEN [type |-> "None", rows |-> <<>>]
                                       ELSE g_fetch.preferences.value

\* the inventory fetch failed and the two fetches after it returned their rows
C28_Witness ==
    /\ ContextGathered
    /\ g_fetch.inventory.raised
    /\ ~g_fetch.shopping_list.raised
    /\ g_fetch.shopping_list.value.rows # <<>>
    /\ g_out.context.inventory.rows = <<>>
    /\ g_out.context.shopping_list = g_fetch.shopping_list.value
    /\ g_out.context.gathered_at

(***************************************************************************)
(* Properties of add_shopping_list_items (checked under SpecS)             *)
(***************************************************************************)
\* the name of an entry, lowercased and trimmed
NormalizedName(entry) == Strip(Lower(entry.item))

NoSharedName(items) ==
    \A i, j \in 1..Len(items) : i < j => NormalizedName(items[i]) # NormalizedName(items[j])

\* the item is the only one of the call with its name, the list already has an
\* entry of that name at position i, both carry a quantity and their units are
\* the same but for case: after the call the entry holds the sum
SumsIntoEntry(before, after, added, k, i) ==
    (/\ NormalizedName(added[k]) # ""
     /\ NormalizedName(added[k]) = NormalizedName(before[i])
     /\ \A l \in 1..Len(added) : l # k => NormalizedName(added[l]) # NormalizedName(added[k])
     /\ "quantity" \in added[k].keys /\ "quantity" \in before[i].keys
     /\ Lower(added[k].unit) = Lower(before[i].unit))
    => /\ Len(after) >= i
       /\ after[i].item = before[i].item
       /\ after[i].unit = before[i].unit
       /\ after[i].quantity = before[i].quantity + added[k].quantity

\* C29: the add merges by case-insensitive trimmed name: after any sequence of
\* add_shopping_list_items calls from an empty list (duplicates inside one call
\* included) no two entries share a normalized name, and adding a name that already
\* exists with the same unit sums the quantities instead of appending.
C29_MergesByName ==
    [][s_calls' = s_calls + 1 =>
          /\ NoSharedName(s_row'.items)
          /\ s_row'.id # 0
          /\ \A k \in 1..Len(s_added'), i \in 1..Len(s_row.items) :
                SumsIntoEntry(s_row.items, s_row'.items, s_added', k, i)]_vars

\* Milk 1 gallon, then milk 1 gallon written with a blank: one entry with quantity 2
C29_Witness ==
    /\ s_calls = 2
    /\ s_added = <<[item |-> " milk", quantity |-> 1, unit |-> "gallon",
                    keys |-> {"item", "quantity", "unit"}]>>
    /\ s_row.items = <<[item |-> "Milk", quantity |-> 2, unit |-> "gallon",
                        keys |-> {"item", "quantity", "unit"}]>>

(***************************************************************************)
(* Properties of validate_plan: the checks one by one (checked under SpecV)*)
(***************************************************************************)
\* the two contexts differ in shopping_list and preferences at most
SameBudget(context, other) ==
    /\ context.wallet_balance = other.wallet_balance
    /\ context.spending_limit_daily = other.spending_limit_daily
    /\ context.spent_today = other.spent_today

\* the two validate_plan calls ended alike but for the warnings: both raised, or
\* both returned the same is_valid, requires_approval and errors and left the plan
\* in the same status
SameVerdict(out, other) ==
    /\ out.raised = other.raised
    /\ out.is_valid = other.is_valid
    /\ out.requires_approval = other.requires_approval
    /\ out.errors = other.errors
    /\ out.plan.status = other.plan.status

\* C31 as stated: the duplicate and preference checks are warning-only: for any
\* plan, two contexts that differ only in shopping_list and preferences give the
\* same is_valid, requires_approval, errors and resulting plan.status from
\* validate_plan.
C31_AsStated ==
    [][(v_out = NoResult /\ v_out' # NoResult) =>
          \A other \in Contexts :
              SameBudget(v_ctx, other) => SameVerdict(v_out', validate_plan(v_plan, other))]_vars

\* the same, for the pairs of contexts under which both calls return
C31_WhenBothReturn ==
    [][(v_out = NoResult /\ v_out' # NoResult) =>
          \A other \in Contexts :
              (SameBudget(v_ctx, other) /\ ~v_out'.raised
               /\ ~validate_plan(v_plan, other).raised)
              => SameVerdict(v_out', validate_plan(v_plan, other))]_vars

\* the sum of the step costs of the validated plan
RECURSIVE CostOfFirst(_)
CostOfFirst(n) ==
    IF n = 0 THEN 0 ELSE CostOfFirst(n - 1) + v_plan.steps[n].estimated_cost

TotalCost == CostOfFirst(Len(v_plan.steps))

OverRemaining == TotalCost > v_ctx.spending_limit_daily - v_ctx.spent_today
OverLimit == TotalCost > v_ctx.spending_limit_daily
WalletShort == v_ctx.wallet_balance.present /\ v_ctx.wallet_balance.amount < TotalCost

\* the approval reason names the daily limit / the budget warning is among the
\* warnings
BudgetApproval ==
    \E k \in 1..Len(v_out.approval_reason) : v_out.approval_reason[k].tag = "over_daily_limit"
BudgetWarning ==
    \E k \in 1..Len(v_out.warnings) : v_out.warnings[k] = "uses_remaining_budget"

\* C32: budget check, for a plan with total cost > 0: a total over the remaining
\* daily budget and over the daily limit requires approval; a total over the
\* remaining budget only adds a warning and the budget check asks for no approval; a
\* wallet balance that is present and smaller than the total adds an error and the
\* plan becomes FAILED, and no error arises otherwise; a total over neither adds no
\* approval and no warning.
C32_BudgetCheck ==
    (Validated /\ ~v_out.raised /\ TotalCost > 0) =>
        /\ (OverRemaining /\ OverLimit)
              => v_out.requires_approval /\ BudgetApproval /\ ~BudgetWarning
        /\ (OverRemaining /\ ~OverLimit) => BudgetWarning /\ ~BudgetApproval
        /\ ~OverRemaining => ~BudgetWarning /\ ~BudgetApproval
        /\ WalletShort
              => v_out.errors # <<>> /\ ~v_out.is_valid /\ v_out.plan.status = "FAILED"
        /\ ~WalletShort => v_out.errors = <<>> /\ v_out.is_valid

\* a purchase over what is left of the daily budget but under the limit, with a
\* wallet that cannot pay for it: warned about and FAILED
C32_Witness ==
    /\ Validated /\ ~v_out.raised
    /\ TotalCost > 0
    /\ OverRemaining /\ ~OverLimit /\ WalletShort
    /\ BudgetWarning
    /\ v_out.plan.status = "FAILED"

\* what one step asks of the safety check: a bulk removal of more than five items,
\* a description with one of the keywords
StepBulk(step) ==
    /\ IsRemovalAction(Lower(step.action))
    /\ BulkItems(step.parameters).kind = "list"
    /\ Len(BulkItems(step.parameters).val) > 5
StepKeyword(step) == FirstKeyword(Lower(step.description), 1)
StepAsks(step) == StepBulk(step) \/ StepKeyword(step) # ""

\* the reasons for approval in the order in which they arise: the budget check,
\* then the safety check step by step, the bulk test before the keyword test
BudgetReasons ==
    IF TotalCost > 0 /\ OverRemaining /\ OverLimit
    THEN <<[tag |-> "over_daily_limit", n |-> TotalCost, kw |-> ""]>> ELSE <<>>

StepReasons(step) ==
    (IF StepBulk(step)
     THEN <<[tag |-> "bulk_removal", n |-> Len(BulkItems(step.parameters).val), kw |-> ""]>>
     ELSE <<>>)
    \o (IF StepKeyword(step) # ""
        THEN <<[tag |-> "keyword", n |-> 0, kw |-> StepKeyword(step)]>> ELSE <<>>)

RECURSIVE SafetyReasons(_)
SafetyReasons(n) ==
    IF n = 0 THEN <<>> ELSE SafetyReasons(n - 1) \o StepReasons(v_plan.steps[n])

ReasonsInOrder == BudgetReasons \o SafetyReasons(Len(v_plan.steps))

\* C38 as stated: when more than one check or step requests approval, the
\* approval_reason reported by validate_plan begins with the reason of the first one
\* that requested it (budget before safety, step order within the safety check),
\* later reasons coming after it and never replacing it.
C38_AsStated ==
    (Validated /\ ~v_out.raised /\ Len(ReasonsInOrder) > 1) =>
        /\ v_out.approval_reason # <<>>
        /\ v_out.approval_reason[1] = ReasonsInOrder[1]

\* between the checks the order is kept: a reason of the budget check comes first
\* and the reason of the safety check follows it; of the reasons that arise inside
\* the safety check, the last one is the one reported
C38_AcrossChecks ==
    (Validated /\ ~v_out.raised /\ ReasonsInOrder # <<>>) =>
        LET safety == SafetyReasons(Len(v_plan.steps))
        IN  v_out.approval_reason =
                BudgetReasons \o (IF safety = <<>> THEN <<>> ELSE <<safety[Len(safety)]>>)

(***************************************************************************)
(* Properties of RateLimiter.wait_if_needed: rejected calls (checked under *)
(* SpecR)                                                                  *)
(***************************************************************************)
\* the step ends a wait_if_needed call of thread t with RateLimitExceededError
Rejects(t) ==
    /\ thread[t].pc # "idle"
    /\ thread'[t].pc = "idle"
    /\ Len(calls') = Len(calls) + 1
    /\ calls'[Len(calls')].thread = t
    /\ calls'[Len(calls')].outcome = "raised"

\* C37: when wait_if_needed raises RateLimitExceededError the rejected call records
\* nothing: no timestamp is appended to the minute queue or the day queue, which are
\* left as the clean-up of this call left them, so the call counts against neither
\* window.
C37_RejectedRecordsNothing ==
    [][\A t \in Threads :
          Rejects(t) =>
              /\ limiter'.minute_requests = limiter.minute_requests
              /\ limiter'.day_requests = limiter.day_requests
              /\ limiter'.minute_requests = thread[t].seen.minute_requests
              /\ limiter'.day_requests = thread[t].seen.day_requests
              /\ calls'[Len(calls')].stamp = 0]_vars

\* a call was rejected and the day queue holds the timestamps of the admitted calls
\* only, max_requests_per_day of them
C37_Witness ==
    /\ \E k \in 1..Len(calls) : calls[k].outcome = "raised"
    /\ Len(limiter.day_requests) = limiter.max_requests_per_day
    /\ Len(limiter.day_requests)
         = Cardinality({k \in 1..Len(calls) : calls[k].outcome = "returned"})

(***************************************************************************)
(* Properties of AgentExecutor: the execution log (checked under SpecE)    *)
(***************************************************************************)
\* the entries execute_plan appended for plan p, in order
LogOf(p) == SelectSeq(execution_log, LAMBDA entry : entry.plan = p)

\* the status word an entry carries for a step that ended in the given status
StatusWord(status) ==
    IF status = "COMPLETED" THEN "completed"
    ELSE IF status = "FAILED" THEN "failed" ELSE "none"

\* execute_plan has run plan p to its end and returned
RanToEnd(p) ==
    /\ plans[p].completed_at
    /\ \E u \in Users : call[u].plan = p /\ call[u].pc = "respond"

\* C35 as stated: after execute_plan on an APPROVED plan with n steps the execution
\* log has grown by exactly n entries, the i-th carrying the id and action of the i-th
\* step and a status equal to that step's final status, for any handler outcome and
\* any progress_callback behaviour.
C35_AsStated ==
    \A p \in 1..Len(plans) :
        RanToEnd(p) =>
            /\ Len(LogOf(p)) = Len(plans[p].steps)
            /\ \A i \in 1..Len(plans[p].steps) :
                  i <= Len(LogOf(p)) =>
                      /\ LogOf(p)[i].step_id = i
                      /\ LogOf(p)[i].action = plans[p].steps[i].action
                      /\ LogOf(p)[i].status = StatusWord(plans[p].steps[i].status)

(***************************************************************************)
(* Properties of pending_plans (checked under Spec)                        *)
(***************************************************************************)
\* C39: in every state reached through process_message calls, each plan stored in
\* pending_plans has status AWAITING_APPROVAL, requires_approval = true, at least one
\* step and all steps PENDING; a plan that is EXECUTING, COMPLETED, FAILED or APPROVED
\* is never in the map.
C39_PendingPlansAwait ==
    \A u \in Users :
        pending_plans[u] # 0 =>
            LET plan == plans[pending_plans[u]]
            IN  /\ plan.status = "AWAITING_APPROVAL"
                /\ plan.status \notin {"EXECUTING", "COMPLETED", "FAILED", "APPROVED"}
                /\ plan.requires_approval
                /\ plan.steps # <<>>
                /\ \A i \in 1..Len(plan.steps) : plan.steps[i].status = "PENDING"

\* a plan is still in the map after its owner gave a reply that was neither an
\* approval nor a rejection, while an earlier plan has been run
C39_Witness ==
    /\ response.text = "reprompt"
    /\ pending_plans[response.user] = response.plan
    /\ response.plan # 0
    /\ \E p \in 1..Len(plans) : plans[p].status = "COMPLETED"

(***************************************************************************)
(* Properties of process_message: one user's message and another user's    *)
(* plans (checked under Spec)                                              *)
(***************************************************************************)
\* the step is part of the handling of a message of user u
HandlesMessageOf(u) ==
    \/ call'[u] # call[u]
    \/ response' # NoResponse /\ response'.user = u

\* the step adds, removes or replaces the pending_plans entry of user u, or changes
\* a plan created for u (its status, its steps) or calls a handler for it
TouchesPlansOf(u) ==
    \/ pending_plans'[u] # pending_plans[u]
    \/ \E p \in 1..Len(plans) :
          /\ hist[p].owner = u
          /\ \/ plans'[p] # plans[p]
             \/ handler_calls'[p] # handler_calls[p]
             \/ hist'[p] # hist[p]

\* C33: handling a message of user A never adds, removes or replaces the
\* pending_plans entry of any other user B, and never executes or changes the
\* status of a plan created for B.
C33_UsersIsolated ==
    [][\A A, B \in Users :
          (A # B /\ HandlesMessageOf(A)) => ~TouchesPlansOf(B)]_vars

\* user u2 has a plan waiting for approval while a plan of user u1 has been run
C33_Witness ==
    /\ pending_plans["u2"] # 0
    /\ hist[pending_plans["u2"]].owner = "u2"
    /\ pending_plans["u1"] = 0
    /\ \E p \in 1..Len(plans) :
          /\ hist[p].owner = "u1"
          /\ plans[p].status = "COMPLETED"
          /\ hist[p].approved_by = "u1"

(***************************************************************************)
(* Properties of process_message: LLM calls and rate-limiter admissions    *)
(* (checked under Spec)                                                    *)
(***************************************************************************)
\* the LLM calls the step makes: those counted by the invocation whose frame the step
\* moves, or by the invocation that the step starts and ends at once
LlmCallsOfStep ==
    IF \E u \in Users : call'[u] # call[u]
    THEN LET u == CHOOSE v \in Users : call'[v] # call[v]
         IN  (IF call'[u].pc = "idle" THEN response'.llm_calls ELSE call'[u].llm_calls)
                 - call[u].llm_calls
    ELSE response'.llm_calls

\* the step holds a successful wait_if_needed: after pruning there was room in the
\* day window, and one timestamp was recorded
AdmittedInStep ==
    \E expired \in 0..day_requests :
        /\ day_requests - expired < max_requests_per_day
        /\ day_requests' = day_requests - expired + 1

\* the step is the end of an invocation that ran a plan
EndsExecution(u) == call[u].pc = "respond" /\ call'[u].pc = "idle"

CompletedCount(plan) ==
    Cardinality({i \in 1..Len(plan.steps) : plan.steps[i].status = "COMPLETED"})

\* C36: every outbound LLM call made during process_message is preceded by its own
\* successful wait_if_needed admission, one admission per call; a message causes at
\* most two LLM calls; the summary call is made only when at least two steps completed.
C36_LlmCallsAdmitted ==
    [][orch_vars' # orch_vars =>
          /\ LlmCallsOfStep \in {0, 1}
          /\ LlmCallsOfStep = 1 => AdmittedInStep
          /\ LlmCallsOfStep = 0 => day_requests' <= day_requests
          /\ response'.llm_calls <= 2
          /\ \A u \in Users : call'[u].llm_calls <= 2
          /\ \A u \in Users :
                (EndsExecution(u) /\ LlmCallsOfStep = 1) =>
                    CompletedCount(plans[call[u].plan]) >= 2]_vars

\* a message that cost two LLM calls: the plan and the summary of its two completed steps
C36_Witness ==
    /\ response.text = "completion"
    /\ response.llm_calls = 2
    /\ response.plan # 0
    /\ CompletedCount(plans[response.plan]) >= 2
    /\ day_requests = max_requests_per_day

(***************************************************************************)
(* Properties of _handle_plan_response: approval before rejection (checked *)
(* under SpecD)                                                            *)
(***************************************************************************)
\* the reply, in lower case, contains a word of the list
HasWordOf(words) == \E k \in 1..Len(words) : Contains(Lower(r_message), words[k])

\* the step is the handling of the reply to the pending plan
RepliesToPending ==
    /\ pending_plans["u1"] = 1
    /\ call["u1"].pc = "idle"
    /\ orch_vars' # orch_vars

\* the step hands the plan to the executor: the entry is removed, the plan is APPROVED
\* and execute_plan has been entered
SentToExecution ==
    /\ pending_plans'["u1"] = 0
    /\ plans'[1].status = "APPROVED"
    /\ call'["u1"] = Frame("execute", 1, 0, 0)

\* the step cancels the plan: the entry is removed, the plan is not run, the caller is
\* told of the cancellation
Cancelled ==
    /\ pending_plans'["u1"] = 0
    /\ plans' = plans
    /\ call'["u1"].pc = "idle"
    /\ response'.text = "cancelled"

\* C40: in the reply to a pending plan approval takes precedence over rejection, both
\* by substring containment: a reply containing any approval word executes the plan
\* even if it also contains a rejection word; the plan is cancelled only when no
\* approval word is contained and some rejection word is.
C40_ApprovalBeforeRejection ==
    [][RepliesToPending =>
          /\ HasWordOf(approval_words) => SentToExecution
          /\ Cancelled <=> (~HasWordOf(approval_words) /\ HasWordOf(rejection_words))
          /\ (~HasWordOf(approval_words) /\ ~HasWordOf(rejection_words)) =>
                /\ pending_plans' = pending_plans
                /\ plans' = plans]_vars

\* a reply with an approval word and a rejection word, and the plan has been run
C40_Witness ==
    /\ HasWordOf(approval_words)
    /\ HasWordOf(rejection_words)
    /\ pending_plans["u1"] = 0
    /\ hist[1].approved_by = "u1"
    /\ handler_calls[1] # <<>>
    /\ plans[1].status \in {"COMPLETED", "FAILED"}
    /\ response.text = "completion"

(***************************************************************************)
(* Properties of pending_plans under concurrent process_message calls for   *)
(* one user (checked under SpecK)                                          *)
(***************************************************************************)
\* the step is taken by the invocation of thread t
StepOf(t) == k_inv'[t] # k_inv[t]

\* execute_plan has run no plan more than once
ExecutedAtMostOnce == \A p \in 1..Len(k_runs') : k_runs'[p] <= 1

\* a step of an invocation that removes an entry removes the plan the invocation read
DeletesOnlyWhatItRead ==
    \A t \in Threads :
        (StepOf(t) /\ pending_plans["u1"] # 0 /\ pending_plans'["u1"] = 0) =>
            pending_plans["u1"] = k_inv[t].plan

\* a step that makes execute_plan run a plan does not run a plan that a call cancelled
CancelledNotExecuted ==
    \A p \in 1..Len(k_runs) :
        k_runs'[p] > k_runs[p] => hist[p].rejected_by = ""

\* C34 as stated: under concurrent process_message calls for the same user no update
\* of pending_plans is lost: a pending plan is executed at most once, an interleaved
\* call never deletes a pending entry other than the plan it read, and a plan one
\* call cancelled is not executed by another.
C34_AsStated ==
    [][ExecutedAtMostOnce /\ DeletesOnlyWhatItRead /\ CancelledNotExecuted]_vars

\* the three parts of the statement, each on its own
C34_OnlyOnce == [][ExecutedAtMostOnce]_vars
C34_OnlyOwn == [][DeletesOnlyWhatItRead]_vars
C34_OnlyLive == [][CancelledNotExecuted]_vars

====
